---------------------------- MODULE Spec2Model ----------------------------
(***************************************************************************)
(* Ingestion service of BlackChamber ICES: the change-notification webhook *)
(* (internal/webhook), the delta syncer (internal/delta), the dedup filter *)
(* (internal/dedup), the message fetcher (internal/graph), the publisher   *)
(* and the subscription store (internal/subscription), together with the   *)
(* provider (Microsoft Graph) they talk to.                                *)
(*                                                                         *)
(* A message id is the position of the message in the provider's creation  *)
(* order; a delta link <<"delta", p>> stands for "everything up to         *)
(* position p has been seen".  Every call that leaves the process (store,  *)
(* dedup, provider, queue) is one atomic step of the task that makes it.   *)
(***************************************************************************)
EXTENDS Integers, Sequences, FiniteSets, TLC

\* ------------------------------------------------------------ bounds
\* messages the provider creates in one behaviour
MaxMsgs == 2
\* requests the webhook server works on at once (a slot keeps its last
\* request until the next one arrives)
MaxInFlight == 1
\* notifications in one request body
MaxBatch == 1
\* calls (store, dedup, provider, queue) that fail in one behaviour
MaxFaults == 1
\* task invocations (sweep ticks, gap recoveries, webhook requests, backfill
\* runs) in one behaviour
MaxRuns == 3
\* messages on one delta page (the code asks for odata.maxpagesize=100)
PageSize == 1
\* renewal intervals the clock runs through in one behaviour
MaxTime == 3
\* subscriptions the provider issues in one behaviour
MaxSubs == 4
MaxCalls == 4
MaxOutage == 3
MaxList == 2
MaxPages == 2
MaxSegments == 5

\* ------------------------------------------------------------ time scale
\* The clock counts renewal intervals: renewalLoop ticks every renewBuffer / 2,
\* so the buffer is two intervals long.  A subscription lives longer than the
\* buffer (4230 minutes in the code); three intervals keep that order.
renewBuffer == 2
maxSubscriptionMinutes == 3

\* ------------------------------------------------------------ domains
Users == {"u1"}
Msgs == 1..MaxMsgs
TenantID == "t1"
TenantAlias == "a1"
\* aliases with an authenticated transport (main.go builds one per tenant)
graphClients == {TenantAlias}
Procs == {"sweep", "gap"}
Conns == 1..MaxInFlight

NoLink == <<>>
NoRec == [present |-> FALSE, SubscriptionID |-> "", TenantAlias |-> "",
          ClientState |-> "", DeltaLink |-> NoLink, ExpiresAt |-> 0,
          LastNotification |-> FALSE, Status |-> ""]
\* no function is being called on its own
NoProbe == [op |-> "none", in |-> <<>>, out |-> <<>>, done |-> FALSE]
keyPrefix == "ices:seen:"

\* slog's text handler writes a time attribute as text
Timestamps == <<"T0", "T1", "T2", "T3", "T4", "T5", "T6", "T7", "T8", "T9", "T10", "T11">>
Timestamp(t) == Timestamps[t + 1]
\* a log record: the message, then the attribute keys and values in order
Warn(msg, attrs) == <<"WARN", msg>> \o attrs
Info(msg, attrs) == <<"INFO", msg>> \o attrs

VARIABLES
  mail,        \* provider: mail[i] is the mailbox (user) message i was created in
  removed,     \* provider: ids of the messages deleted since
  store,       \* subscriptions table: (tenant, user) -> row or NoRec
  deltaLinks,  \* Syncer.deltaLinks: the in-memory token cache
  seen,        \* dedup keys set in Redis
  queue,       \* the downstream list, oldest first
  sync,        \* the sweep task and the gap-recovery task
  syncUsers,   \* the mailboxes the sweep iterates (store.ListByTenant at startup)
  sweepIdx,    \* position of the sweep in syncUsers
  http,        \* per connection: the request received last
  resp,        \* per connection: the response written to it
  tasks,       \* per connection: the processNotifications goroutine it started
  calls,       \* per connection: the calls made for it, <<notification index, callee, outcome>>
  lifecycle,   \* per connection: the events handed to HandleLifecycleEvent
  backfill,    \* the backfill run (its own process, sharing Redis and the queue)
  faults,      \* failures the environment may still inject
  runs,        \* task invocations still to come
  now,         \* the clock, in renewal intervals
  graph,       \* provider: the live subscriptions, the ids issued, the calls received
  mgr,         \* LifecycleManager: the renewal loop and the subscription call in progress
  boot,        \* main: its position in startup and shutdown, the webhook listener
  gaps,        \* the OnGapDetected goroutines started by the manager
  filter,      \* the IsNew calls in progress on the shared Filter, and their answers
  slog,        \* the attributes of the log records written
  probe        \* a call of a function of the service on its own: input and result

vars == <<mail, removed, store, deltaLinks, seen, queue, sync, syncUsers, sweepIdx,
          http, resp, tasks, calls, lifecycle, backfill, faults, runs,
          now, graph, mgr, boot, gaps, filter, slog, probe>>

managerVars == <<now, graph, mgr, boot, gaps>>

\* ------------------------------------------------------------ provider
\* ids of the live or deleted messages of mailbox u after position p, ascending
RECURSIVE Later(_, _)
Later(u, p) ==
  IF p >= Len(mail) THEN <<>>
  ELSE IF mail[p + 1] = u THEN <<p + 1>> \o Later(u, p + 1)
       ELSE Later(u, p + 1)

Take(s, n) == IF Len(s) <= n THEN s ELSE SubSeq(s, 1, n)

\* GET on the delta endpoint: the page after position url[2].  A page lists
\* {id, @removed?}; the last page carries the deltaLink, the others a nextLink.
DeltaPage(u, url) ==
  LET rest == Later(u, url[2])
      ids == Take(rest, PageSize)
  IN [value |-> [i \in 1..Len(ids) |->
                   [id |-> ids[i], removed |-> ids[i] \in removed]],
      nextLink |-> IF Len(rest) > PageSize
                   THEN <<"next", ids[Len(ids)]>> ELSE NoLink,
      deltaLink |-> IF Len(rest) > PageSize
                    THEN NoLink ELSE <<"delta", Len(mail)>>]

\* a page with neither link (a provider answer the code tolerates)
EmptyPage == [value |-> <<>>, nextLink |-> NoLink, deltaLink |-> NoLink]

\* GET /users/{u}/messages/{m}: 200 when the mailbox holds the message
Holds(u, m) == m \in 1..Len(mail) /\ mail[m] = u /\ m \notin removed

\* A message is created in a mailbox.
ProviderCreate(u) ==
  /\ Len(mail) < MaxMsgs
  /\ mail' = Append(mail, u)
  /\ UNCHANGED <<removed, store, deltaLinks, seen, queue, sync, syncUsers, sweepIdx,
                 http, resp, tasks, calls, lifecycle, faults, runs, backfill,
                 managerVars, filter, slog, probe>>

\* A message is deleted from its mailbox.
ProviderDelete(m) ==
  /\ m \in 1..Len(mail)
  /\ m \notin removed
  /\ removed' = removed \cup {m}
  /\ UNCHANGED <<mail, store, deltaLinks, seen, queue, sync, syncUsers, sweepIdx,
                 http, resp, tasks, calls, lifecycle, faults, runs, backfill,
                 managerVars, filter, slog, probe>>

\* ------------------------------------------------------------ fault budget
\* the outcomes a call may have: its normal ones, and "err" while failures
\* can still be injected
Outcomes(normal) == IF faults > 0 THEN normal \cup {"err"} ELSE normal
Spend(o, bad) == IF o \in bad THEN faults - 1 ELSE faults


\* ------------------------------------------------------------ subscription store
Key(tenantID, userID) == <<tenantID, userID>>
Keys == {Key(TenantID, u) : u \in Users}

Row(subscriptionID, alias, clientState, expiresAt) ==
  [present |-> TRUE, SubscriptionID |-> subscriptionID, TenantAlias |-> alias,
   ClientState |-> clientState, DeltaLink |-> NoLink, ExpiresAt |-> expiresAt,
   LastNotification |-> FALSE, Status |-> "active"]

\* Store.Get: the row, or nil when there is none
StoreGet(k) == IF k \in DOMAIN store THEN store[k] ELSE NoRec

\* Store.ListByTenant, user ids only: the users that have a row, in order
ListByTenant(st) ==
  IF st[Key(TenantID, "u1")].present THEN <<"u1">> ELSE <<>>

\* SaveDeltaLink that fills in a token only where none is stored yet
SaveDeltaLink_FirstOnly(k, link) ==
  IF StoreGet(k).present /\ StoreGet(k).DeltaLink = NoLink
  THEN [store EXCEPT ![k] = [@ EXCEPT !.DeltaLink = link]]
  ELSE store

\* Store.SaveDeltaLink: UPDATE ... WHERE tenant_id, user_id (no row: no change)
SaveDeltaLink(k, link) ==
  IF StoreGet(k).present
  THEN [store EXCEPT ![k] = [@ EXCEPT !.DeltaLink = link]]
  ELSE store

\* Store.TouchNotification: UPDATE last_notification
TouchNotification(k) ==
  IF StoreGet(k).present
  THEN [store EXCEPT ![k] = [@ EXCEPT !.LastNotification = TRUE]]
  ELSE store

\* Store.MarkStatus: UPDATE status WHERE subscription_id
MarkStatus(subscriptionID, status) ==
  [k \in DOMAIN store |->
     IF store[k].present /\ store[k].SubscriptionID = subscriptionID
     THEN [store[k] EXCEPT !.Status = status] ELSE store[k]]

\* ------------------------------------------------------------ dedup, fetch, publish
\* the Redis key of an event id; an event id is <<origin prefix, message id>>
DedupKey(eventID) == <<keyPrefix>> \o eventID

\* DefaultTTL (24h), in clock units: a key set at t is gone at t + DefaultTTL
DefaultTTL == 2

\* Filter.IsNew when Redis answers: SET NX EX, true when the key was set.
\* seen holds <<key, expiry>>; a key whose expiry has come is no longer there.
IsNew_NoCheck(eventID) == TRUE
IsNew(eventID) == \A e \in seen : e[1] = DedupKey(eventID) => e[2] <= now

MarkSeen_Refresh(eventID) ==
  {e \in seen : e[1] # DedupKey(eventID)} \cup {<<DedupKey(eventID), now + DefaultTTL>>}
MarkSeen(eventID) ==
  IF IsNew(eventID)
  THEN {e \in seen : e[1] # DedupKey(eventID)}
         \cup {<<DedupKey(eventID), now + DefaultTTL>>}
  ELSE seen

\* the goroutines that share one Filter, and the event ids they ask about
Callers == {"c1", "c2"}
EventIDs == {<<"", 1>>, <<"delta:", 1>>}
NoCall == [pc |-> "idle", eventID |-> <<>>, since |-> 0]
NoFilter == [task |-> [c \in Callers |-> NoCall], answers |-> <<>>]
InProgress == Cardinality({c \in Callers : filter.task[c].pc # "idle"})

\* a goroutine enters f.IsNew(ctx, eventID); since = the answers given so far
callIsNew(c, eventID) ==
  /\ filter.task[c].pc = "idle"
  /\ Len(filter.answers) + InProgress < MaxCalls
  /\ filter' = [filter EXCEPT !.task[c] =
                  [pc |-> "SetNX", eventID |-> eventID, since |-> Len(filter.answers)]]
  /\ UNCHANGED <<mail, removed, store, deltaLinks, seen, queue, sync, syncUsers,
                 sweepIdx, http, resp, tasks, calls, lifecycle, backfill, faults,
                 runs, managerVars, slog, probe>>

\* Filter.IsNew: f.rdb.SetNX(ctx, key, 1, f.ttl).Result(); an error answers
\* (false, err) and leaves Redis as it was
SetNX(c) ==
  LET t == filter.task[c] IN
  /\ t.pc = "SetNX"
  /\ \E o \in Outcomes({"ok"}) :
       /\ faults' = Spend(o, {"err"})
       /\ seen' = IF o = "ok" THEN MarkSeen(t.eventID) ELSE seen
       /\ filter' = [filter EXCEPT
            !.task[c] = NoCall,
            !.answers = Append(@, [eventID |-> t.eventID, since |-> t.since,
                                   at |-> now, err |-> o = "err",
                                   set |-> o = "ok" /\ IsNew(t.eventID)])]
  /\ UNCHANGED <<mail, removed, store, deltaLinks, queue, sync, syncUsers,
                 sweepIdx, http, resp, tasks, calls, lifecycle, backfill,
                 runs, managerVars, slog, probe>>

NextFilter ==
  \/ \E c \in Callers : \E eventID \in EventIDs : callIsNew(c, eventID)
  \/ \E c \in Callers : SetNX(c)

\* the envelope FetchMessage builds from a 200 answer
Event(userID, messageID, tenantID, tenantAlias) ==
  [MessageID |-> messageID, UserID |-> userID, TenantID |-> tenantID,
   TenantAlias |-> tenantAlias]

\* FetchMessage: "noclient" without any provider call when the alias has no
\* transport; else the provider's answer, 200 ("ok") or 404 ("nil")
FetchAnswers(userID, messageID, tenantAlias) ==
  IF tenantAlias \notin graphClients THEN {"noclient"}
  ELSE Outcomes({IF Holds(userID, messageID) THEN "ok" ELSE "nil"})

\* Publisher.PublishEmailEvent: LPUSH of the task record
Publish(event) == Append(queue, event)

\* ------------------------------------------------------------ delta syncer
\* a task's locals; result, lastDelta (the last deltaLink the provider
\* returned during the call) and clean (the call began when no call could
\* fail any more) stay readable after SyncMailbox has returned
Idle == [pc |-> "idle", user |-> "u1", mode |-> "none", url |-> NoLink,
         token |-> NoLink, page |-> EmptyPage, pending |-> <<>>,
         lastDelta |-> NoLink, result |-> "none", clean |-> FALSE]

\* a sweep that gives up at the first mailbox whose SyncMailbox fails
Return_StopOnError(p, s, result) ==
  LET more == p = "sweep" /\ sweepIdx < Len(syncUsers) /\ result = "ok"
  IN /\ sync' = [sync EXCEPT ![p] =
           [Idle EXCEPT !.pc = IF more THEN "call" ELSE "idle",
                        !.user = IF more THEN syncUsers[sweepIdx + 1] ELSE s.user,
                        !.result = result,
                        !.lastDelta = s.lastDelta,
                        !.clean = s.clean]]
     /\ sweepIdx' = IF p = "sweep"
                    THEN (IF more THEN sweepIdx + 1 ELSE 0)
                    ELSE sweepIdx

\* SyncMailbox returns; the sweep goes on with its next mailbox
Return(p, s, result) ==
  LET more == p = "sweep" /\ sweepIdx < Len(syncUsers)
  IN /\ sync' = [sync EXCEPT ![p] =
           [Idle EXCEPT !.pc = IF more THEN "call" ELSE "idle",
                        !.user = IF more THEN syncUsers[sweepIdx + 1] ELSE s.user,
                        !.result = result,
                        !.lastDelta = s.lastDelta,
                        !.clean = s.clean]]
     /\ sweepIdx' = IF p = "sweep"
                    THEN (IF more THEN sweepIdx + 1 ELSE 0)
                    ELSE sweepIdx

\* StartPeriodicSync: the ticker fires and the sweep starts with the first mailbox
SweepTick ==
  /\ sync["sweep"].pc = "idle"
  /\ Len(syncUsers) > 0
  /\ runs > 0
  /\ runs' = runs - 1
  /\ sweepIdx' = 1
  /\ sync' = [sync EXCEPT !["sweep"] = [Idle EXCEPT !.pc = "call",
                                                   !.user = syncUsers[1]]]
  /\ UNCHANGED <<mail, removed, store, deltaLinks, seen, queue, syncUsers,
                 http, resp, tasks, calls, lifecycle, faults, backfill,
                 managerVars, filter, slog, probe>>

\* mgr.OnGapDetected (wired in main.go, run in its own goroutine by the
\* manager): a gap-recovery SyncMailbox for a mailbox that has a row
OnGapDetected(u) ==
  /\ sync["gap"].pc = "idle"
  /\ StoreGet(Key(TenantID, u)).present
  /\ runs > 0
  /\ runs' = runs - 1
  /\ sync' = [sync EXCEPT !["gap"] = [Idle EXCEPT !.pc = "call", !.user = u]]
  /\ UNCHANGED <<mail, removed, store, deltaLinks, seen, queue, sweepIdx,
                 syncUsers, http, resp, tasks, calls, lifecycle, faults, backfill,
                 managerVars, filter, slog, probe>>

\* a SyncMailbox that processes the pages of a first sync like any other
SyncMailbox_AlwaysIncremental(p) ==
  LET s == sync[p]
      deltaLink == deltaLinks[Key(TenantID, s.user)]
  IN /\ s.pc = "call"
     /\ sync' = [sync EXCEPT ![p] =
          [Idle EXCEPT !.pc = "fetchDeltaPage",
                       !.user = s.user,
                       !.clean = faults = 0,
                       !.token = deltaLink,
                       !.mode = "incremental",
                       !.url = IF deltaLink = NoLink THEN <<"initial", 0>> ELSE deltaLink]]
     /\ UNCHANGED <<mail, removed, store, deltaLinks, seen, queue, sweepIdx,
                    syncUsers, http, resp, tasks, calls, lifecycle, faults, runs, backfill,
                 managerVars, filter, slog, probe>>

\* the first lines of SyncMailbox: read the cache, choose initial or incremental
SyncMailbox(p) ==
  LET s == sync[p]
      deltaLink == deltaLinks[Key(TenantID, s.user)]
  IN /\ s.pc = "call"
     /\ sync' = [sync EXCEPT ![p] =
          [Idle EXCEPT !.pc = "fetchDeltaPage",
                       !.user = s.user,
                       !.clean = faults = 0,
                       !.token = deltaLink,
                       !.mode = IF deltaLink = NoLink THEN "initial" ELSE "incremental",
                       !.url = IF deltaLink = NoLink THEN <<"initial", 0>> ELSE deltaLink]]
     /\ UNCHANGED <<mail, removed, store, deltaLinks, seen, queue, sweepIdx,
                    syncUsers, http, resp, tasks, calls, lifecycle, faults, runs, backfill,
                 managerVars, filter, slog, probe>>

\* drop the tombstones at the head of a page's remaining entries
RECURSIVE SkipRemoved(_)
SkipRemoved(entries) ==
  IF entries # <<>> /\ entries[1].removed THEN SkipRemoved(Tail(entries))
  ELSE entries

\* an incrementalSync that, like initialSync, fails when the traversal ends
\* without a deltaLink
NextEntry_LinklessIsError(p, s, entries) ==
  LET rest == SkipRemoved(entries)
      k == Key(TenantID, s.user)
  IN IF rest # <<>>
     THEN /\ sync' = [sync EXCEPT ![p] = [s EXCEPT !.pc = "dedup", !.pending = rest]]
          /\ UNCHANGED sweepIdx
     ELSE IF s.page.deltaLink # NoLink
     THEN /\ sync' = [sync EXCEPT ![p] = [s EXCEPT !.pc = "saveDeltaLink",
                                                   !.pending = <<>>]]
          /\ UNCHANGED sweepIdx
     ELSE IF s.page.nextLink # NoLink
     THEN /\ sync' = [sync EXCEPT ![p] = [s EXCEPT !.pc = "fetchDeltaPage",
                                                   !.pending = <<>>,
                                                   !.url = s.page.nextLink]]
          /\ UNCHANGED sweepIdx
     ELSE Return(p, s, "no deltaLink")

\* incrementalSync after a message is dealt with: the next live entry of the
\* page; at the end of the page, save its deltaLink, or follow its nextLink,
\* or (neither) finish
NextEntry(p, s, entries) ==
  LET rest == SkipRemoved(entries)
      k == Key(TenantID, s.user)
  IN IF rest # <<>>
     THEN /\ sync' = [sync EXCEPT ![p] = [s EXCEPT !.pc = "dedup", !.pending = rest]]
          /\ UNCHANGED sweepIdx
     ELSE IF s.page.deltaLink # NoLink
     THEN /\ sync' = [sync EXCEPT ![p] = [s EXCEPT !.pc = "saveDeltaLink",
                                                   !.pending = <<>>]]
          /\ UNCHANGED sweepIdx
     ELSE IF s.page.nextLink # NoLink
     THEN /\ sync' = [sync EXCEPT ![p] = [s EXCEPT !.pc = "fetchDeltaPage",
                                                   !.pending = <<>>,
                                                   !.url = s.page.nextLink]]
          /\ UNCHANGED sweepIdx
     ELSE Return(p, s, "ok")

\* the ways a delta page request fails: transport error or 5xx, 410 Gone,
\* and a 200 page that carries neither link
PageFailures == {"err", "gone", "nolinks"}

\* fetchDeltaPage, and what initialSync / incrementalSync do with its answer
fetchDeltaPage(p) ==
  LET s == sync[p]
      k == Key(TenantID, s.user)
  IN /\ s.pc = "fetchDeltaPage"
     /\ \E o \in {"ok"} \cup (IF faults > 0 THEN PageFailures ELSE {}) :
          LET page == IF o = "ok" THEN DeltaPage(s.user, s.url) ELSE EmptyPage
              got == [s EXCEPT !.page = page,
                               !.lastDelta = IF page.deltaLink # NoLink
                                             THEN page.deltaLink ELSE @]
          IN /\ faults' = Spend(o, PageFailures)
             /\ IF o = "gone" /\ s.mode = "incremental"
                THEN \* 410: clear the cached token and do an initial sync
                     /\ deltaLinks' = [deltaLinks EXCEPT ![k] = NoLink]
                     /\ sync' = [sync EXCEPT ![p] = [s EXCEPT !.mode = "initial",
                                                              !.url = <<"initial", 0>>]]
                     /\ UNCHANGED sweepIdx
                ELSE /\ UNCHANGED deltaLinks
                     /\ IF o = "err" \/ o = "gone"
                        THEN Return(p, s, "page error")
                        ELSE IF s.mode = "initial"
                        THEN IF page.deltaLink # NoLink
                             THEN /\ sync' = [sync EXCEPT ![p] =
                                       [got EXCEPT !.pc = "saveDeltaLink"]]
                                  /\ UNCHANGED sweepIdx
                             ELSE IF page.nextLink # NoLink
                             THEN /\ sync' = [sync EXCEPT ![p] =
                                       [got EXCEPT !.url = page.nextLink]]
                                  /\ UNCHANGED sweepIdx
                             ELSE Return(p, s, "no deltaLink")
                        ELSE NextEntry(p, got, page.value)
     /\ UNCHANGED <<mail, removed, store, seen, queue,
                    syncUsers, http, resp, tasks, calls, lifecycle, runs, backfill,
                 managerVars, filter, slog, probe>>

\* incrementalSync: s.dedup.IsNew(ctx, "delta:"+msg.ID)
deltaIsNew(p) ==
  LET s == sync[p]
      id == s.pending[1].id
  IN /\ s.pc = "dedup"
     /\ \E o \in Outcomes({"ok"}) :
          /\ faults' = Spend(o, {"err"})
          /\ IF o = "err"
             THEN /\ UNCHANGED <<seen, sweepIdx, runs>>
                  /\ sync' = [sync EXCEPT ![p] = [s EXCEPT !.pc = "fetch"]]
             ELSE /\ seen' = MarkSeen(<<"delta:", id>>)
                  /\ IF IsNew(<<"delta:", id>>)
                     THEN /\ sync' = [sync EXCEPT ![p] = [s EXCEPT !.pc = "fetch"]]
                          /\ UNCHANGED sweepIdx
                     ELSE NextEntry(p, s, Tail(s.pending))
     /\ UNCHANGED <<mail, removed, store, deltaLinks, queue,
                    syncUsers, http, resp, tasks, calls, lifecycle, runs, backfill,
                 managerVars, filter, slog, probe>>

\* an incrementalSync that returns the error of a failed FetchMessage
deltaFetchMessage_StopOnError(p) ==
  LET s == sync[p]
      id == s.pending[1].id
  IN /\ s.pc = "fetch"
     /\ \E o \in FetchAnswers(s.user, id, TenantAlias) :
          /\ faults' = Spend(o, {"err"})
          /\ IF o = "ok"
             THEN /\ sync' = [sync EXCEPT ![p] = [s EXCEPT !.pc = "publish"]]
                  /\ UNCHANGED sweepIdx
             ELSE IF o = "err" THEN Return(p, s, "fetch error")
             ELSE NextEntry(p, s, Tail(s.pending))
     /\ UNCHANGED <<mail, removed, store, deltaLinks, seen, queue,
                    syncUsers, http, resp, tasks, calls, lifecycle, runs, backfill,
                 managerVars, filter, slog, probe>>

\* incrementalSync: s.fetcher.FetchMessage
deltaFetchMessage(p) ==
  LET s == sync[p]
      id == s.pending[1].id
  IN /\ s.pc = "fetch"
     /\ \E o \in FetchAnswers(s.user, id, TenantAlias) :
          /\ faults' = Spend(o, {"err"})
          /\ IF o = "ok"
             THEN /\ sync' = [sync EXCEPT ![p] = [s EXCEPT !.pc = "publish"]]
                  /\ UNCHANGED sweepIdx
             ELSE NextEntry(p, s, Tail(s.pending))
     /\ UNCHANGED <<mail, removed, store, deltaLinks, seen, queue,
                    syncUsers, http, resp, tasks, calls, lifecycle, runs, backfill,
                 managerVars, filter, slog, probe>>

\* incrementalSync: s.publisher.PublishEmailEvent
deltaPublish(p) ==
  LET s == sync[p]
      id == s.pending[1].id
  IN /\ s.pc = "publish"
     /\ \E o \in Outcomes({"ok"}) :
          /\ faults' = Spend(o, {"err"})
          /\ IF o = "ok"
             THEN /\ queue' = Publish(Event(s.user, id, TenantID, TenantAlias))
                  /\ NextEntry(p, s, Tail(s.pending))
             ELSE /\ UNCHANGED queue
                  /\ NextEntry(p, s, Tail(s.pending))
     /\ UNCHANGED <<mail, removed, store, deltaLinks, seen,
                    syncUsers, http, resp, tasks, calls, lifecycle, runs, backfill,
                 managerVars, filter, slog, probe>>

\* saveDeltaLink, first half: the cache is written under the lock
saveDeltaLinkCache(p) ==
  LET s == sync[p]
  IN /\ s.pc = "saveDeltaLink"
     /\ deltaLinks' = [deltaLinks EXCEPT ![Key(TenantID, s.user)] = s.lastDelta]
     /\ sync' = [sync EXCEPT ![p] = [s EXCEPT !.pc = "persist"]]
     /\ UNCHANGED <<mail, removed, store, seen, queue, sweepIdx,
                    syncUsers, http, resp, tasks, calls, lifecycle, faults, runs, backfill,
                 managerVars, filter, slog, probe>>

\* saveDeltaLink, second half: s.store.SaveDeltaLink; its error is returned
saveDeltaLinkStore(p) ==
  LET s == sync[p]
  IN /\ s.pc = "persist"
     /\ \E o \in Outcomes({"ok"}) :
          /\ faults' = Spend(o, {"err"})
          /\ IF o = "ok"
             THEN /\ store' = SaveDeltaLink(Key(TenantID, s.user), s.lastDelta)
                  /\ Return(p, s, "ok")
             ELSE /\ UNCHANGED store
                  /\ Return(p, s, "persist error")
     /\ UNCHANGED <<mail, removed, deltaLinks, seen, queue,
                    syncUsers, http, resp, tasks, calls, lifecycle, runs, backfill,
                 managerVars, filter, slog, probe>>

\* ------------------------------------------------------------ backfill
\* ids of the live messages of mailbox u before position p, newest first
RECURSIVE Earlier(_, _)
Earlier(u, p) ==
  IF p <= 1 THEN <<>>
  ELSE IF p - 1 <= Len(mail) /\ mail[p - 1] = u /\ (p - 1) \notin removed
       THEN <<p - 1>> \o Earlier(u, p - 1)
       ELSE Earlier(u, p - 1)

\* the URL backfillUser builds: newest first; the lookback window covers the
\* whole behaviour
listURL == <<"list", MaxMsgs + 1>>

\* GET on the messages list: a page of ids and, when more follow, a nextLink
MessagesPage(u, url) ==
  LET rest == Earlier(u, url[2])
      ids == Take(rest, PageSize)
  IN [Value |-> ids,
      NextLink |-> IF Len(rest) > PageSize THEN <<"list", ids[Len(ids)]>> ELSE NoLink]

UserResult(userID, fetched, skipped, errors) ==
  [UserID |-> userID, Fetched |-> fetched, Skipped |-> skipped, Errors |-> errors]

\* the user lists the CLI may be started with (it exits when it has no user)
BackfillUsers == {<<"u1">>}

BackfillResult == [UserResults |-> <<>>, TotalNew |-> 0, TotalSkipped |-> 0]

NoRun == [pc |-> "none", Users |-> <<>>, url |-> NoLink, pending |-> <<>>,
          NextLink |-> NoLink, ur |-> UserResult("", 0, 0, 0),
          result |-> BackfillResult]

\* Run's loop after backfillUser has returned ur: add it to the result and go
\* on with the next user
NextUser(b, ur) ==
  LET result == [UserResults |-> Append(b.result.UserResults, ur),
                 TotalNew |-> b.result.TotalNew + ur.Fetched,
                 TotalSkipped |-> b.result.TotalSkipped + ur.Skipped]
      users == Tail(b.Users)
  IN IF users = <<>>
     THEN [NoRun EXCEPT !.pc = "done", !.result = result]
     ELSE [NoRun EXCEPT !.pc = "fetchPage", !.Users = users, !.url = listURL,
                        !.ur = UserResult(users[1], 0, 0, 0), !.result = result]

\* backfillUser after a message is dealt with: the next message of the page,
\* the next page, or the end of the mailbox
NextMessage(b, entries) ==
  IF entries # <<>> THEN [b EXCEPT !.pc = "dedup", !.pending = entries]
  ELSE IF b.NextLink # NoLink
  THEN [b EXCEPT !.pc = "fetchPage", !.pending = <<>>, !.url = b.NextLink]
  ELSE NextUser(b, b.ur)

\* Runner.Run: the backfill CLI starts a run over the users it was given
Run(users) ==
  /\ (backfill.pc = "none" \/ backfill.pc = "done")
  /\ runs > 0
  /\ runs' = runs - 1
  /\ backfill' = IF users = <<>> THEN [NoRun EXCEPT !.pc = "done"]
                 ELSE [NoRun EXCEPT !.pc = "fetchPage", !.Users = users,
                                    !.url = listURL,
                                    !.ur = UserResult(users[1], 0, 0, 0)]
  /\ UNCHANGED <<mail, removed, store, deltaLinks, seen, queue, sync, syncUsers,
                 sweepIdx, http, resp, tasks, calls, lifecycle, faults,
                 managerVars, filter, slog, probe>>

\* backfillUser: r.fetchPage; an error ends the user with UserResult{Errors: 1}
fetchPage ==
  LET b == backfill
  IN /\ b.pc = "fetchPage"
     /\ \E o \in Outcomes({"ok"}) :
          /\ faults' = Spend(o, {"err"})
          /\ backfill' =
               IF o = "err" THEN NextUser(b, UserResult(b.Users[1], 0, 0, 1))
               ELSE LET page == MessagesPage(b.Users[1], b.url)
                    IN NextMessage([b EXCEPT !.NextLink = page.NextLink], page.Value)
     /\ UNCHANGED <<mail, removed, store, deltaLinks, seen, queue, sync, syncUsers,
                    sweepIdx, http, resp, tasks, calls, lifecycle, runs,
                 managerVars, filter, slog, probe>>

\* backfillUser: r.dedup.IsNew(ctx, "backfill:"+msg.ID)
\* a backfillUser that skips the message when the dedup check fails
backfillIsNew_SkipOnError ==
  LET b == backfill
      id == b.pending[1]
  IN /\ b.pc = "dedup"
     /\ \E o \in Outcomes({"ok"}) :
          /\ faults' = Spend(o, {"err"})
          /\ seen' = IF o = "ok" THEN MarkSeen(<<"backfill:", id>>) ELSE seen
          /\ backfill' =
               IF o = "err" \/ ~IsNew(<<"backfill:", id>>)
               THEN NextMessage([b EXCEPT !.ur.Skipped = @ + 1], Tail(b.pending))
               ELSE [b EXCEPT !.pc = "fetch"]
     /\ UNCHANGED <<mail, removed, store, deltaLinks, queue, sync, syncUsers,
                    sweepIdx, http, resp, tasks, calls, lifecycle, runs,
                 managerVars, filter, slog, probe>>

backfillIsNew ==
  LET b == backfill
      id == b.pending[1]
  IN /\ b.pc = "dedup"
     /\ \E o \in Outcomes({"ok"}) :
          /\ faults' = Spend(o, {"err"})
          /\ seen' = IF o = "ok" THEN MarkSeen(<<"backfill:", id>>) ELSE seen
          /\ backfill' =
               IF o = "ok" /\ ~IsNew(<<"backfill:", id>>)
               THEN NextMessage([b EXCEPT !.ur.Skipped = @ + 1], Tail(b.pending))
               ELSE [b EXCEPT !.pc = "fetch"]
     /\ UNCHANGED <<mail, removed, store, deltaLinks, queue, sync, syncUsers,
                    sweepIdx, http, resp, tasks, calls, lifecycle, runs,
                 managerVars, filter, slog, probe>>

\* backfillUser: r.fetcher.FetchMessage
backfillFetchMessage ==
  LET b == backfill
      id == b.pending[1]
  IN /\ b.pc = "fetch"
     /\ \E o \in FetchAnswers(b.Users[1], id, TenantAlias) :
          /\ faults' = Spend(o, {"err"})
          /\ backfill' =
               IF o = "ok" THEN [b EXCEPT !.pc = "publish"]
               ELSE IF o = "nil"
               THEN NextMessage([b EXCEPT !.ur.Skipped = @ + 1], Tail(b.pending))
               ELSE NextMessage([b EXCEPT !.ur.Errors = @ + 1], Tail(b.pending))
     /\ UNCHANGED <<mail, removed, store, deltaLinks, seen, queue, sync, syncUsers,
                    sweepIdx, http, resp, tasks, calls, lifecycle, runs,
                 managerVars, filter, slog, probe>>

\* backfillUser: r.publisher.PublishEmailEvent
backfillPublish ==
  LET b == backfill
      id == b.pending[1]
  IN /\ b.pc = "publish"
     /\ \E o \in Outcomes({"ok"}) :
          /\ faults' = Spend(o, {"err"})
          /\ queue' = IF o = "ok"
                      THEN Publish(Event(b.Users[1], id, TenantID, TenantAlias))
                      ELSE queue
          /\ backfill' =
               IF o = "ok"
               THEN NextMessage([b EXCEPT !.ur.Fetched = @ + 1], Tail(b.pending))
               ELSE NextMessage([b EXCEPT !.ur.Errors = @ + 1], Tail(b.pending))
     /\ UNCHANGED <<mail, removed, store, deltaLinks, seen, sync, syncUsers,
                    sweepIdx, http, resp, tasks, calls, lifecycle, runs,
                 managerVars, filter, slog, probe>>

backfillUser ==
  \/ fetchPage
  \/ backfillIsNew
  \/ backfillFetchMessage
  \/ backfillPublish

NextBackfill ==
  \/ \E users \in BackfillUsers : Run(users)
  \/ backfillUser

\* ------------------------------------------------------------ webhook inputs
\* a resource string, split at "/": "Users/u1/Messages/1" is
\* <<"Users", "u1", "Messages", 1>>, and a leading "/" gives a leading ""
Resource(userID, messageID) == <<"Users", userID, "Messages", messageID>>

ChangeNotification(changeType, resource, clientState) ==
  [SubscriptionID |-> "sub-1", ChangeType |-> changeType, Resource |-> resource,
   ClientState |-> clientState, TenantID |-> TenantID, LifecycleEvent |-> ""]

LifecycleNotification(subscriptionID, event) ==
  [SubscriptionID |-> subscriptionID, ChangeType |-> "", Resource |-> <<"">>,
   ClientState |-> "s1", TenantID |-> TenantID, LifecycleEvent |-> event]

\* what Graph sends for a message created in a subscribed mailbox
Genuine(m) == ChangeNotification("created", Resource("u1", m), "s1")

ChangeNotifications ==
  {ChangeNotification("created", Resource("u1", m), c) :
     m \in Msgs, c \in {"", "s1", "wrong"}}
    \cup {ChangeNotification("created", <<"", "users", "u1", "messages", 1>>, "s1"),
          ChangeNotification("created", <<"users", "u1", "folders", 1>>, "s1"),
          ChangeNotification("updated", Resource("u1", 1), "s1")}

LifecycleNotifications ==
  {LifecycleNotification("sub-1", e) :
     e \in {"subscriptionRemoved", "reauthorizationRequired", "missed", ""}}

\* the bodies json.Unmarshal accepts, with at most MaxBatch notifications
RECURSIVE Batches(_, _)
Batches(S, n) ==
  IF n = 0 THEN {<<>>}
  ELSE Batches(S, n - 1)
         \cup {Append(b, x) : b \in {c \in Batches(S, n - 1) : Len(c) = n - 1}, x \in S}

Body(S) == {[json |-> FALSE, Value |-> <<>>]}
             \cup {[json |-> TRUE, Value |-> b] : b \in Batches(S, MaxBatch)}

Request(path, method, validationToken, body) ==
  [path |-> path, method |-> method, validationToken |-> validationToken,
   body |-> body]

NoRequest == Request("", "", "", [json |-> FALSE, Value |-> <<>>])

\* the requests the server may receive: any method, with or without a
\* validationToken, any body
Requests(path, S) ==
  {Request(path, m, v, b) : m \in {"POST", "GET"}, v \in {"", "tok"}, b \in Body(S)}

NotificationPath == "/webhook/a1/u1"
LifecyclePath == "/lifecycle/a1"
NotificationRequests == Requests(NotificationPath, ChangeNotifications)
LifecycleRequests == Requests(LifecyclePath, LifecycleNotifications)
\* the lifecycle requests Graph sends about the subscriptions of this service
LifecycleEventRequests ==
  {Request(LifecyclePath, "POST", "",
           [json |-> TRUE, Value |-> <<LifecycleNotification(id, e)>>]) :
     id \in {"sub-1", "sub-2"},
     e \in {"subscriptionRemoved", "reauthorizationRequired", "missed"}}
\* the requests Graph itself sends: one genuine notification per message
GenuineRequests ==
  {Request(NotificationPath, "POST", "", [json |-> TRUE, Value |-> <<Genuine(m)>>]) :
     m \in Msgs}

\* ------------------------------------------------------------ webhook handler
\* strings.EqualFold against a lower-case word
Lower(w) ==
  CASE w = "Users" -> "users"
    [] w = "Messages" -> "messages"
    [] OTHER -> w

\* a parseResource that wants "users" and "messages" in lower case
parseResource_LowerCaseOnly(resource) ==
  LET parts == IF Len(resource) > 1 /\ resource[1] = "" THEN Tail(resource)
               ELSE resource
  IN IF Len(parts) # 4 THEN [err |-> TRUE, userID |-> "", messageID |-> 0]
     ELSE IF parts[1] # "users" \/ parts[3] # "messages"
     THEN [err |-> TRUE, userID |-> "", messageID |-> 0]
     ELSE [err |-> FALSE, userID |-> parts[2], messageID |-> parts[4]]

\* parseResource: TrimPrefix "/", Split "/", four segments users/_/messages/_
parseResource(resource) ==
  LET parts == IF Len(resource) > 1 /\ resource[1] = "" THEN Tail(resource)
               ELSE resource
  IN IF Len(parts) # 4 THEN [err |-> TRUE, userID |-> "", messageID |-> 0]
     ELSE IF Lower(parts[1]) # "users" \/ Lower(parts[3]) # "messages"
     THEN [err |-> TRUE, userID |-> "", messageID |-> 0]
     ELSE [err |-> FALSE, userID |-> parts[2], messageID |-> parts[4]]

Response(status, contentType, body) ==
  [status |-> status, contentType |-> contentType, body |-> body]
NoResponse == Response(0, "", "")

\* ServeNotification answering 200 (as it does to non-POST requests) to a
\* notification it accepts
NotificationResponse_Ok(req) ==
  IF req.validationToken # ""
  THEN [resp |-> Response(200, "text/plain", req.validationToken), go |-> FALSE]
  ELSE IF req.method # "POST"
  THEN [resp |-> Response(200, "", ""), go |-> FALSE]
  ELSE IF ~req.body.json
  THEN [resp |-> Response(202, "", ""), go |-> FALSE]
  ELSE [resp |-> Response(200, "", ""), go |-> TRUE]

\* ServeNotification answering 400 to a body it cannot parse
NotificationResponse_BadRequest(req) ==
  IF req.validationToken # ""
  THEN [resp |-> Response(200, "text/plain", req.validationToken), go |-> FALSE]
  ELSE IF req.method # "POST"
  THEN [resp |-> Response(200, "", ""), go |-> FALSE]
  ELSE IF ~req.body.json
  THEN [resp |-> Response(400, "", ""), go |-> FALSE]
  ELSE [resp |-> Response(202, "", ""), go |-> TRUE]

\* what ServeNotification writes, and whether it starts processNotifications
NotificationResponse(req) ==
  IF req.validationToken # ""
  THEN [resp |-> Response(200, "text/plain", req.validationToken), go |-> FALSE]
  ELSE IF req.method # "POST"
  THEN [resp |-> Response(200, "", ""), go |-> FALSE]
  ELSE IF ~req.body.json
  THEN [resp |-> Response(202, "", ""), go |-> FALSE]
  ELSE [resp |-> Response(202, "", ""), go |-> TRUE]

\* ServeLifecycle without the validationToken branch
LifecycleResponse_NoValidation(req) ==
  IF ~req.body.json
  THEN [resp |-> Response(202, "", ""), go |-> FALSE]
  ELSE [resp |-> Response(202, "", ""), go |-> TRUE]

\* what ServeLifecycle writes, and whether it goes on to the events
LifecycleResponse(req) ==
  IF req.validationToken # ""
  THEN [resp |-> Response(200, "text/plain", req.validationToken), go |-> FALSE]
  ELSE IF ~req.body.json
  THEN [resp |-> Response(202, "", ""), go |-> FALSE]
  ELSE [resp |-> Response(202, "", ""), go |-> TRUE]

NoTask == [pc |-> "none", notifs |-> <<>>, rec |-> NoRec, userID |-> "",
           messageID |-> 0]

\* processNotifications at the top of its loop: skip the notifications that
\* are not "created" or whose resource does not parse; stop at the end
RECURSIVE Dispatch(_, _)
Dispatch(t, notifs) ==
  IF notifs = <<>> THEN [NoTask EXCEPT !.pc = "done"]
  ELSE IF notifs[1].ChangeType # "created" THEN Dispatch(t, Tail(notifs))
  ELSE LET parsed == parseResource(notifs[1].Resource)
       IN IF parsed.err THEN Dispatch(t, Tail(notifs))
          ELSE [pc |-> "Get", notifs |-> notifs, rec |-> NoRec,
                userID |-> parsed.userID, messageID |-> parsed.messageID]

\* the index in its batch of the notification task r is working on
Index(r) == Len(http[r].body.Value) - Len(tasks[r].notifs) + 1
Called(r, callee, o) == [calls EXCEPT ![r] = @ \cup {<<Index(r), callee, o>>}]

\* ServeNotification: the response is written, then processNotifications is
\* started in its own goroutine
ServeNotification(r, reqs) ==
  /\ (tasks[r].pc = "none" \/ tasks[r].pc = "done")
  /\ runs > 0
  /\ runs' = runs - 1
  /\ \E req \in reqs :
       LET out == NotificationResponse(req)
       IN /\ http' = [http EXCEPT ![r] = req]
          /\ resp' = [resp EXCEPT ![r] = out.resp]
          /\ tasks' = [tasks EXCEPT ![r] =
                         IF out.go THEN Dispatch(NoTask, req.body.Value) ELSE NoTask]
          /\ calls' = [calls EXCEPT ![r] = {}]
          /\ lifecycle' = [lifecycle EXCEPT ![r] = <<>>]
  /\ UNCHANGED <<mail, removed, store, deltaLinks, seen, queue, sync, syncUsers,
                 sweepIdx, faults, backfill,
                 managerVars, filter, slog, probe>>

\* LifecycleManager.HandleLifecycleEvent for the events of one body, in order:
\* subscriptionRemoved marks the row removed; reauthorizationRequired looks up
\* Get("", ""), finds no row and returns; missed only logs
RECURSIVE HandleLifecycleEvents(_, _)
HandleLifecycleEvents(m, notifs) ==
  IF notifs = <<>> THEN m
  ELSE LET n == notifs[1]
           \* m.store.Get(ctx, "", ""): the row of tenant "" and user ""
           rec == IF Key("", "") \in DOMAIN m.store
                  THEN m.store[Key("", "")] ELSE NoRec
       IN IF n.LifecycleEvent = "subscriptionRemoved"
          THEN HandleLifecycleEvents(
                 [m EXCEPT !.store =
                    [k \in DOMAIN m.store |->
                       IF m.store[k].present
                            /\ m.store[k].SubscriptionID = n.SubscriptionID
                       THEN [m.store[k] EXCEPT !.Status = "removed"]
                       ELSE m.store[k]]],
                 Tail(notifs))
          ELSE IF n.LifecycleEvent = "reauthorizationRequired"
                    /\ rec.present /\ rec.TenantAlias \in graphClients
          THEN \* renewSubscription of the row found: the PATCH, and on 200
               \* the new expiry
               HandleLifecycleEvents(
                 [m EXCEPT !.log = Append(@, <<"PATCH", rec.SubscriptionID>>),
                           !.store =
                    [k \in DOMAIN m.store |->
                       IF m.store[k].present
                            /\ m.store[k].SubscriptionID = rec.SubscriptionID
                            /\ rec.SubscriptionID \in graph.subs
                       THEN [m.store[k] EXCEPT
                               !.ExpiresAt = now + maxSubscriptionMinutes]
                       ELSE m.store[k]]],
                 Tail(notifs))
          \* reauthorizationRequired with no row found, "missed" (a log line
          \* only: OnGapDetected is not called) and unknown events
          ELSE HandleLifecycleEvents(m, Tail(notifs))

Events(notifs) ==
  SelectSeq([i \in 1..Len(notifs) |-> notifs[i].LifecycleEvent], LAMBDA e : e # "")

\* ServeLifecycle: the response is written, then every notification that
\* carries a lifecycleEvent is handed to the manager
ServeLifecycle(r, reqs) ==
  /\ (tasks[r].pc = "none" \/ tasks[r].pc = "done")
  /\ runs > 0
  /\ runs' = runs - 1
  /\ \E req \in reqs :
       LET out == LifecycleResponse(req)
           m == IF out.go
                THEN HandleLifecycleEvents(
                       [store |-> store, log |-> graph.log, gaps |-> gaps],
                       req.body.Value)
                ELSE [store |-> store, log |-> graph.log, gaps |-> gaps]
       IN /\ http' = [http EXCEPT ![r] = req]
          /\ resp' = [resp EXCEPT ![r] = out.resp]
          /\ tasks' = [tasks EXCEPT ![r] = NoTask]
          /\ calls' = [calls EXCEPT ![r] = {}]
          /\ lifecycle' = [lifecycle EXCEPT ![r] =
                             IF out.go THEN Events(req.body.Value) ELSE <<>>]
          /\ store' = m.store
          /\ graph' = [graph EXCEPT !.log = m.log]
          /\ gaps' = m.gaps
  /\ UNCHANGED <<mail, removed, deltaLinks, seen, queue, sync, syncUsers,
                 sweepIdx, faults, backfill, now, mgr, boot, filter, slog, probe>>

\* the check with the stored secret compared against itself
clientStateMismatch_StoredOnly(rec, n) ==
  rec.present /\ n.ClientState # "" /\ rec.ClientState # rec.ClientState

\* the clientState check: a row was found, the notification echoes a client
\* state, and the two differ
clientStateMismatch(rec, n) ==
  rec.present /\ n.ClientState # "" /\ rec.ClientState # n.ClientState

\* processNotifications: h.store.Get and the clientState check
pushGet(r) ==
  LET t == tasks[r]
      n == t.notifs[1]
  IN /\ t.pc = "Get"
     /\ \E o \in Outcomes({"ok"}) :
          LET rec == IF o = "ok" THEN StoreGet(Key(n.TenantID, t.userID)) ELSE NoRec
          IN /\ faults' = Spend(o, {"err"})
             /\ calls' = Called(r, "Get", o)
             /\ tasks' = [tasks EXCEPT ![r] =
                  IF o = "ok" /\ clientStateMismatch(rec, n)
                  THEN Dispatch(t, Tail(t.notifs))
                  ELSE [t EXCEPT !.rec = rec,
                                 !.pc = IF rec.present THEN "TouchNotification"
                                        ELSE "IsNew"]]
             /\ slog' = IF o = "ok" /\ clientStateMismatch(rec, n)
                        THEN slog \cup {Warn("clientState mismatch",
                                              <<"expected", rec.ClientState,
                                                "got", n.ClientState>>)}
                        ELSE slog
     /\ UNCHANGED <<mail, removed, store, deltaLinks, seen, queue, sync, syncUsers,
                    sweepIdx, http, resp, lifecycle, runs, backfill,
                 managerVars, filter, probe>>

\* processNotifications: h.store.TouchNotification, its error ignored
pushTouchNotification(r) ==
  LET t == tasks[r]
      n == t.notifs[1]
  IN /\ t.pc = "TouchNotification"
     /\ \E o \in Outcomes({"ok"}) :
          /\ faults' = Spend(o, {"err"})
          /\ calls' = Called(r, "TouchNotification", o)
          /\ store' = IF o = "ok" THEN TouchNotification(Key(n.TenantID, t.userID))
                      ELSE store
     /\ tasks' = [tasks EXCEPT ![r] = [t EXCEPT !.pc = "IsNew"]]
     /\ UNCHANGED <<mail, removed, deltaLinks, seen, queue, sync, syncUsers,
                    sweepIdx, http, resp, lifecycle, runs, backfill,
                 managerVars, filter, slog, probe>>

\* a processNotifications that returns at the first duplicate message
pushIsNew_ReturnOnDuplicate(r) ==
  LET t == tasks[r]
  IN /\ t.pc = "IsNew"
     /\ \E o \in Outcomes({"ok"}) :
          /\ faults' = Spend(o, {"err"})
          /\ calls' = Called(r, "IsNew", o)
          /\ seen' = IF o = "ok" THEN MarkSeen(<<"", t.messageID>>) ELSE seen
          /\ tasks' = [tasks EXCEPT ![r] =
               IF o = "ok" /\ ~IsNew(<<"", t.messageID>>)
               THEN [NoTask EXCEPT !.pc = "done"]
               ELSE [t EXCEPT !.pc = "FetchMessage"]]
     /\ UNCHANGED <<mail, removed, store, deltaLinks, queue, sync, syncUsers,
                    sweepIdx, http, resp, lifecycle, runs, backfill,
                 managerVars, filter, slog, probe>>

\* processNotifications: h.filter.IsNew(ctx, messageID)
pushIsNew(r) ==
  LET t == tasks[r]
  IN /\ t.pc = "IsNew"
     /\ \E o \in Outcomes({"ok"}) :
          /\ faults' = Spend(o, {"err"})
          /\ calls' = Called(r, "IsNew", o)
          /\ seen' = IF o = "ok" THEN MarkSeen(<<"", t.messageID>>) ELSE seen
          /\ tasks' = [tasks EXCEPT ![r] =
               IF o = "ok" /\ ~IsNew(<<"", t.messageID>>)
               THEN Dispatch(t, Tail(t.notifs))
               ELSE [t EXCEPT !.pc = "FetchMessage"]]
     /\ UNCHANGED <<mail, removed, store, deltaLinks, queue, sync, syncUsers,
                    sweepIdx, http, resp, lifecycle, runs, backfill,
                 managerVars, filter, slog, probe>>

\* processNotifications: h.fetcher.FetchMessage with the alias of the row
\* ("" when no row was found)
pushFetchMessage(r) ==
  LET t == tasks[r]
      tenantAlias == IF t.rec.present THEN t.rec.TenantAlias ELSE ""
  IN /\ t.pc = "FetchMessage"
     /\ \E o \in FetchAnswers(t.userID, t.messageID, tenantAlias) :
          /\ faults' = Spend(o, {"err"})
          /\ calls' = Called(r, "FetchMessage", o)
          /\ tasks' = [tasks EXCEPT ![r] =
               IF o = "ok" THEN [t EXCEPT !.pc = "Publish"]
               ELSE Dispatch(t, Tail(t.notifs))]
     /\ UNCHANGED <<mail, removed, store, deltaLinks, seen, queue, sync, syncUsers,
                    sweepIdx, http, resp, lifecycle, runs, backfill,
                 managerVars, filter, slog, probe>>

\* processNotifications: h.publisher.PublishEmailEvent
pushPublish(r) ==
  LET t == tasks[r]
      n == t.notifs[1]
  IN /\ t.pc = "Publish"
     /\ \E o \in Outcomes({"ok"}) :
          /\ faults' = Spend(o, {"err"})
          /\ calls' = Called(r, "Publish", o)
          /\ queue' = IF o = "ok"
                      THEN Publish(Event(t.userID, t.messageID, n.TenantID,
                                         t.rec.TenantAlias))
                      ELSE queue
     /\ tasks' = [tasks EXCEPT ![r] = Dispatch(t, Tail(t.notifs))]
     /\ UNCHANGED <<mail, removed, store, deltaLinks, seen, sync, syncUsers,
                    sweepIdx, http, resp, lifecycle, runs, backfill,
                 managerVars, filter, slog, probe>>

processNotifications(r) ==
  \/ pushGet(r)
  \/ pushTouchNotification(r)
  \/ pushIsNew(r)
  \/ pushFetchMessage(r)
  \/ pushPublish(r)

NextWebhook ==
  \/ \E r \in Conns : ServeNotification(r, NotificationRequests)
  \/ \E r \in Conns : ServeLifecycle(r, LifecycleRequests)
  \/ \E r \in Conns : processNotifications(r)

NextSync ==
  \/ SweepTick
  \/ \E u \in Users : OnGapDetected(u)
  \/ \E p \in Procs : SyncMailbox(p)
  \/ \E p \in Procs : fetchDeltaPage(p)
  \/ \E p \in Procs : deltaIsNew(p)
  \/ \E p \in Procs : deltaFetchMessage(p)
  \/ \E p \in Procs : deltaPublish(p)
  \/ \E p \in Procs : saveDeltaLinkCache(p)
  \/ \E p \in Procs : saveDeltaLinkStore(p)

NextProvider ==
  \/ \E u \in Users : ProviderCreate(u)
  \/ \E m \in Msgs : ProviderDelete(m)

\* ------------------------------------------------------------ lifecycle manager
\* the ids Graph gives to new subscriptions, in the order it issues them
SubscriptionIDs == <<"sub-2", "sub-3", "sub-4", "sub-5", "sub-6", "sub-7", "sub-8">>
\* generateClientState: sixteen random bytes, a value not seen before
generateClientState(n) ==
  <<"s2", "s3", "s4", "s5", "s6", "s7", "s8", "s9", "s10", "s11", "s12">>[n]

\* provider side of /subscriptions: the live subscriptions, how many ids were
\* issued, and the calls received (<<"POST", user>> or <<"PATCH", id>>)
NoGraph == [subs |-> {"sub-1"}, issued |-> 0, log |-> <<>>, users |-> <<"u1">>]

\* Graph drops a subscription (it expired, or an administrator removed it)
ProviderExpire(id) ==
  /\ id \in graph.subs
  /\ graph' = [graph EXCEPT !.subs = @ \ {id}]
  /\ UNCHANGED <<mail, removed, store, deltaLinks, seen, queue, sync, syncUsers,
                 sweepIdx, http, resp, tasks, calls, lifecycle, backfill, faults,
                 runs, now, mgr, boot, gaps, filter, slog, probe>>

\* subscription_id TEXT NOT NULL UNIQUE: another row already has this id
UniqueViolation(k, subscriptionID) ==
  \E j \in DOMAIN store :
    j # k /\ store[j].present /\ store[j].SubscriptionID = subscriptionID

\* an Upsert that replaces the whole row of the mailbox
Upsert_Replace(k, subscriptionID, alias, clientState, expiresAt) ==
  IF UniqueViolation(k, subscriptionID) THEN store
  ELSE [store EXCEPT ![k] = Row(subscriptionID, alias, clientState, expiresAt)]

\* an Upsert on a table without the UNIQUE constraint on subscription_id
Upsert_AnyID(k, subscriptionID, alias, clientState, expiresAt) ==
  IF StoreGet(k).present
  THEN [store EXCEPT ![k] = [@ EXCEPT !.SubscriptionID = subscriptionID,
                                      !.ClientState = clientState,
                                      !.ExpiresAt = expiresAt,
                                      !.Status = "active"]]
  ELSE [store EXCEPT ![k] = Row(subscriptionID, alias, clientState, expiresAt)]

\* Store.Upsert: INSERT ... ON CONFLICT (tenant_id, user_id) DO UPDATE of
\* subscription_id, client_state, expires_at and status only; the statement
\* fails, and writes nothing, when another row has the subscription id.
\* The manager is the only caller and passes Status "active".
Upsert(k, subscriptionID, alias, clientState, expiresAt) ==
  IF UniqueViolation(k, subscriptionID) THEN store
  ELSE IF StoreGet(k).present
  THEN [store EXCEPT ![k] = [@ EXCEPT !.SubscriptionID = subscriptionID,
                                      !.ClientState = clientState,
                                      !.ExpiresAt = expiresAt,
                                      !.Status = "active"]]
  ELSE [store EXCEPT ![k] = Row(subscriptionID, alias, clientState, expiresAt)]

\* Store.UpdateExpiry: UPDATE expires_at WHERE subscription_id
UpdateExpiry_Reactivate(subscriptionID, expiresAt) ==
  [k \in DOMAIN store |->
     IF store[k].present /\ store[k].SubscriptionID = subscriptionID
     THEN [store[k] EXCEPT !.ExpiresAt = expiresAt, !.Status = "active"]
     ELSE store[k]]
UpdateExpiry(subscriptionID, expiresAt) ==
  [k \in DOMAIN store |->
     IF store[k].present /\ store[k].SubscriptionID = subscriptionID
     THEN [store[k] EXCEPT !.ExpiresAt = expiresAt] ELSE store[k]]

\* ListExpiringSoon that leaves out the rows already past their expiry
ListExpiringSoon_FutureOnly(st, t) ==
  IF st[Key(TenantID, "u1")].present
       /\ st[Key(TenantID, "u1")].Status = "active"
       /\ st[Key(TenantID, "u1")].ExpiresAt > t
       /\ st[Key(TenantID, "u1")].ExpiresAt < t + renewBuffer
  THEN <<"u1">> ELSE <<>>

\* Store.ListExpiringSoon: WHERE status = 'active' AND expires_at < NOW() +
\* buffer ORDER BY expires_at; the users of the rows, in that order
ListExpiringSoon(st, t) ==
  IF st[Key(TenantID, "u1")].present
       /\ st[Key(TenantID, "u1")].Status = "active"
       /\ st[Key(TenantID, "u1")].ExpiresAt < t + renewBuffer
  THEN <<"u1">> ELSE <<>>

\* the manager: pc is the call in progress (of Start or of renewExpiring),
\* loop the state of the renewalLoop goroutine, tick what ticker.C holds;
\* discovered, ensured (the users Start has called ensureSubscription for),
\* before, at, listed, clean, attempted, failed (the subscriptions whose last
\* renewal returned an error) and tickDone record the run
NoManager == [pc |-> "none", caller |-> "", loop |-> "off", tick |-> FALSE,
              users |-> <<>>, records |-> <<>>, userID |-> "", rec |-> NoRec,
              clientState |-> "", id |-> "", expiry |-> 0, minted |-> 0,
              discovered |-> {}, before |-> [k \in Keys |-> NoRec],
              at |-> 0, listed |-> FALSE, clean |-> FALSE, attempted |-> {},
              failed |-> {}, ensured |-> <<>>, tickDone |-> FALSE]

\* a call made with a cancelled context fails
MgrOutcomes(normal) ==
  Outcomes(normal) \cup (IF boot.cancelled THEN {"err"} ELSE {})
MgrSpend(o) == IF o = "err" /\ faults > 0 THEN faults - 1 ELSE faults

\* what the caller does once the call for one mailbox has returned (its error,
\* if any, is logged): Start takes the next discovered user and, after the
\* last, starts the renewal loop and returns; renewExpiring takes the next
\* record and, after the last, returns to the loop's select
RECURSIVE Continue(_)
Continue(m) ==
  IF m.caller = "Start"
  THEN IF m.users # <<>>
       THEN [m EXCEPT !.pc = "Get", !.userID = Head(m.users),
                      !.users = Tail(m.users), !.rec = NoRec,
                      !.ensured = Append(@, Head(m.users))]
       ELSE [m EXCEPT !.pc = "none", !.caller = "", !.loop = "select",
                      !.rec = NoRec]
  ELSE IF m.records # <<>>
       THEN LET rec == m.before[Key(TenantID, Head(m.records))]
            IN IF rec.TenantAlias \in graphClients
               THEN [m EXCEPT !.pc = "PATCH", !.userID = Head(m.records),
                              !.rec = rec, !.records = Tail(m.records)]
               ELSE Continue([m EXCEPT !.records = Tail(m.records)])
       ELSE [m EXCEPT !.pc = "none", !.caller = "", !.loop = "select",
                      !.rec = NoRec, !.tickDone = TRUE]

\* main resumes after mgr.Start has returned
Resume(m) ==
  IF mgr.caller = "Start" /\ m.caller = ""
  THEN [boot EXCEPT !.pc = "ListByTenant"] ELSE boot

\* Start: the tenant's Graph client is looked up and its users discovered;
\* either failing makes Start return the error, and main exits
DiscoverUsers ==
  /\ mgr.pc = "DiscoverUsers"
  /\ \E o \in MgrOutcomes({"ok"}) :
       /\ faults' = MgrSpend(o)
       /\ IF o = "ok" /\ TenantAlias \in graphClients
          THEN /\ mgr' = Continue([mgr EXCEPT
                              !.users = graph.users,
                              !.discovered = {graph.users[i] : i \in 1..Len(graph.users)}])
               /\ boot' = boot
          ELSE /\ mgr' = [mgr EXCEPT !.pc = "none", !.caller = ""]
               /\ boot' = [boot EXCEPT !.pc = "exited", !.exit = 1]
  /\ UNCHANGED <<mail, removed, store, deltaLinks, seen, queue, sync, syncUsers,
                 sweepIdx, http, resp, tasks, calls, lifecycle, backfill,
                 runs, now, graph, gaps, filter, slog, probe>>

\* ensureSubscription whose failed Store.Get ends Start with the error
ensureSubscription_Abort ==
  /\ mgr.pc = "Get"
  /\ \E o \in MgrOutcomes({"ok"}) :
       LET existing == StoreGet(Key(TenantID, mgr.userID))
       IN /\ faults' = MgrSpend(o)
          /\ mgr' = IF o = "err" THEN [mgr EXCEPT !.pc = "none", !.caller = ""]
                    ELSE IF existing.present /\ existing.Status = "active"
                    THEN IF existing.ExpiresAt - now < renewBuffer
                         THEN [mgr EXCEPT !.pc = "PATCH", !.rec = existing]
                         ELSE Continue(mgr)
                    ELSE [mgr EXCEPT !.pc = "POST",
                                     !.clientState = generateClientState(mgr.minted + 1),
                                     !.minted = @ + 1,
                                     !.expiry = now + maxSubscriptionMinutes]
          /\ boot' = IF o = "err" /\ mgr.caller = "Start"
                     THEN [boot EXCEPT !.pc = "exited", !.exit = 1]
                     ELSE Resume(mgr')
  /\ UNCHANGED <<mail, removed, store, deltaLinks, seen, queue, sync, syncUsers,
                 sweepIdx, http, resp, tasks, calls, lifecycle, backfill,
                 runs, now, graph, gaps, filter, slog, probe>>

\* ensureSubscription: an active row far from expiry needs nothing, an active
\* row within the buffer is renewed, anything else is created
ensureSubscription ==
  /\ mgr.pc = "Get"
  /\ \E o \in MgrOutcomes({"ok"}) :
       LET existing == StoreGet(Key(TenantID, mgr.userID))
       IN /\ faults' = MgrSpend(o)
          /\ mgr' = IF o = "err" THEN Continue(mgr)
                    ELSE IF existing.present /\ existing.Status = "active"
                    THEN IF existing.ExpiresAt - now < renewBuffer
                         THEN [mgr EXCEPT !.pc = "PATCH", !.rec = existing]
                         ELSE Continue(mgr)
                    ELSE [mgr EXCEPT !.pc = "POST",
                                     !.clientState = generateClientState(mgr.minted + 1),
                                     !.minted = @ + 1,
                                     !.expiry = now + maxSubscriptionMinutes]
          /\ boot' = Resume(mgr')
  /\ UNCHANGED <<mail, removed, store, deltaLinks, seen, queue, sync, syncUsers,
                 sweepIdx, http, resp, tasks, calls, lifecycle, backfill,
                 runs, now, graph, gaps, filter, slog, probe>>

\* createSubscription, the POST /subscriptions: only a 201 with a body that
\* decodes goes on to the upsert; the request is logged as issued
createSubscription ==
  /\ mgr.pc = "POST"
  /\ graph.issued < MaxSubs
  /\ \E o \in MgrOutcomes({"201"}) \cup (IF faults > 0 THEN {"undecoded"} ELSE {}) :
       LET id == SubscriptionIDs[graph.issued + 1]
           created == o = "201" \/ o = "undecoded"
       IN /\ faults' = IF o = "undecoded" THEN faults - 1 ELSE MgrSpend(o)
          /\ graph' = [graph EXCEPT
               !.log = Append(@, <<"POST", mgr.userID>>),
               !.issued = IF created THEN @ + 1 ELSE @,
               !.subs = IF created THEN @ \cup {id} ELSE @]
          /\ mgr' = IF o = "201" THEN [mgr EXCEPT !.pc = "Upsert", !.id = id]
                    ELSE Continue(mgr)
          /\ boot' = Resume(mgr')
  /\ UNCHANGED <<mail, removed, store, deltaLinks, seen, queue, sync, syncUsers,
                 sweepIdx, http, resp, tasks, calls, lifecycle, backfill,
                 runs, now, gaps, filter, slog, probe>>

\* createSubscription that persists the record and starts no gap recovery
createUpsert_NoGap ==
  /\ mgr.pc = "Upsert"
  /\ \E o \in MgrOutcomes({"ok"}) :
       /\ faults' = MgrSpend(o)
       /\ store' = IF o = "ok"
                   THEN Upsert(Key(TenantID, mgr.userID), mgr.id, TenantAlias,
                               mgr.clientState, mgr.expiry)
                   ELSE store
       /\ gaps' = gaps
       /\ slog' = IF o = "ok"
                  THEN slog \cup {Info("subscription created",
                                        <<"tenant", TenantAlias, "user", mgr.userID,
                                          "subscription_id", mgr.id,
                                          "expires_at", Timestamp(mgr.expiry)>>)}
                  ELSE slog
       /\ mgr' = Continue(mgr)
       /\ boot' = Resume(mgr')
  /\ UNCHANGED <<mail, removed, deltaLinks, seen, queue, sync, syncUsers,
                 sweepIdx, http, resp, tasks, calls, lifecycle, backfill,
                 runs, now, graph, filter, probe>>

\* createSubscription, after the 201: the record is upserted as active with the
\* provider's id and the secret sent in the POST, then OnGapDetected is started
\* in a goroutine of its own; a failed upsert returns before that
createUpsert ==
  /\ mgr.pc = "Upsert"
  /\ \E o \in MgrOutcomes({"ok"}) :
       /\ faults' = MgrSpend(o)
       /\ store' = IF o = "ok"
                   THEN Upsert(Key(TenantID, mgr.userID), mgr.id, TenantAlias,
                               mgr.clientState, mgr.expiry)
                   ELSE store
       /\ gaps' = IF o = "ok" THEN Append(gaps, mgr.userID) ELSE gaps
       /\ slog' = IF o = "ok"
                  THEN slog \cup {Info("subscription created",
                                        <<"tenant", TenantAlias, "user", mgr.userID,
                                          "subscription_id", mgr.id,
                                          "expires_at", Timestamp(mgr.expiry)>>)}
                  ELSE slog
       /\ mgr' = Continue(mgr)
       /\ boot' = Resume(mgr')
  /\ UNCHANGED <<mail, removed, deltaLinks, seen, queue, sync, syncUsers,
                 sweepIdx, http, resp, tasks, calls, lifecycle, backfill,
                 runs, now, graph, filter, probe>>

\* renewSubscription, the PATCH /subscriptions/{id}: 200 goes on to
\* UpdateExpiry, 404 (Graph no longer has the subscription) to MarkStatus and
\* a new create, anything else is an error
renewSubscription ==
  /\ mgr.pc = "PATCH"
  /\ \E o \in MgrOutcomes(IF mgr.rec.SubscriptionID \in graph.subs
                          THEN {"200"} ELSE {"404"}) :
       /\ faults' = MgrSpend(o)
       /\ graph' = [graph EXCEPT
            !.log = Append(@, <<"PATCH", mgr.rec.SubscriptionID>>)]
       /\ mgr' = IF o = "200"
                 THEN [mgr EXCEPT !.pc = "UpdateExpiry",
                                  !.expiry = now + maxSubscriptionMinutes,
                                  !.attempted = @ \cup {mgr.rec.SubscriptionID},
                                  !.failed = @ \ {mgr.rec.SubscriptionID}]
                 ELSE IF o = "404"
                 THEN [mgr EXCEPT !.pc = "MarkStatus",
                                  !.attempted = @ \cup {mgr.rec.SubscriptionID},
                                  !.failed = @ \ {mgr.rec.SubscriptionID}]
                 ELSE Continue([mgr EXCEPT
                                  !.attempted = @ \cup {mgr.rec.SubscriptionID},
                                  !.failed = @ \cup {mgr.rec.SubscriptionID}])
       /\ boot' = Resume(mgr')
  /\ UNCHANGED <<mail, removed, store, deltaLinks, seen, queue, sync, syncUsers,
                 sweepIdx, http, resp, tasks, calls, lifecycle, backfill,
                 runs, now, gaps, filter, slog, probe>>

\* renewSubscription, after the 200: the new expiry is stored
renewUpdateExpiry ==
  /\ mgr.pc = "UpdateExpiry"
  /\ \E o \in MgrOutcomes({"ok"}) :
       /\ faults' = MgrSpend(o)
       /\ store' = IF o = "ok"
                   THEN UpdateExpiry(mgr.rec.SubscriptionID, mgr.expiry)
                   ELSE store
       /\ mgr' = Continue(mgr)
       /\ boot' = Resume(mgr')
  /\ UNCHANGED <<mail, removed, deltaLinks, seen, queue, sync, syncUsers,
                 sweepIdx, http, resp, tasks, calls, lifecycle, backfill,
                 runs, now, graph, gaps, filter, slog, probe>>

\* renewSubscription whose 404 branch returns after marking the row
renewMarkRemoved_NoCreate ==
  /\ mgr.pc = "MarkStatus"
  /\ \E o \in MgrOutcomes({"ok"}) :
       /\ faults' = MgrSpend(o)
       /\ store' = IF o = "ok"
                   THEN MarkStatus(mgr.rec.SubscriptionID, "removed")
                   ELSE store
       /\ mgr' = Continue(mgr)
       /\ boot' = Resume(mgr')
  /\ UNCHANGED <<mail, removed, deltaLinks, seen, queue, sync, syncUsers,
                 sweepIdx, http, resp, tasks, calls, lifecycle, backfill,
                 runs, now, graph, gaps, filter, slog, probe>>

\* renewSubscription, after the 404: the old row is marked removed (a failure
\* is only logged), the tenant is found by its alias and createSubscription
\* is called for the record's user
renewMarkRemoved ==
  /\ mgr.pc = "MarkStatus"
  /\ \E o \in MgrOutcomes({"ok"}) :
       /\ faults' = MgrSpend(o)
       /\ store' = IF o = "ok"
                   THEN MarkStatus(mgr.rec.SubscriptionID, "removed")
                   ELSE store
       /\ mgr' = IF mgr.rec.TenantAlias = TenantAlias
                 THEN [mgr EXCEPT !.pc = "POST",
                                  !.clientState = generateClientState(mgr.minted + 1),
                                  !.minted = @ + 1,
                                  !.expiry = now + maxSubscriptionMinutes]
                 ELSE Continue(mgr)
       /\ boot' = Resume(mgr')
  /\ UNCHANGED <<mail, removed, deltaLinks, seen, queue, sync, syncUsers,
                 sweepIdx, http, resp, tasks, calls, lifecycle, backfill,
                 runs, now, graph, gaps, filter, slog, probe>>

\* renewalLoop receives from ticker.C and runs renewExpiring: the rows
\* expiring soon are listed (a failure ends the tick) and renewed one by one
renewExpiring ==
  /\ mgr.loop = "select"
  /\ mgr.tick
  /\ \E o \in MgrOutcomes({"ok"}) :
       /\ faults' = MgrSpend(o)
       /\ mgr' = LET m == [mgr EXCEPT !.tick = FALSE, !.loop = "busy",
                                      !.caller = "renewExpiring",
                                      !.at = now, !.before = store,
                                      !.clean = faults = 0 /\ ~boot.cancelled,
                                      !.attempted = {}, !.tickDone = FALSE,
                                      !.listed = o = "ok",
                                      !.records = IF o = "ok"
                                                  THEN ListExpiringSoon(store, now)
                                                  ELSE <<>>]
                 IN Continue(m)
  /\ UNCHANGED <<mail, removed, store, deltaLinks, seen, queue, sync, syncUsers,
                 sweepIdx, http, resp, tasks, calls, lifecycle, backfill,
                 runs, now, graph, boot, gaps, filter, slog, probe>>

\* renewalLoop receives from ctx.Done and returns
renewalLoopDone ==
  /\ mgr.loop = "select"
  /\ boot.cancelled
  /\ mgr' = [mgr EXCEPT !.loop = "exited"]
  /\ UNCHANGED <<mail, removed, store, deltaLinks, seen, queue, sync, syncUsers,
                 sweepIdx, http, resp, tasks, calls, lifecycle, backfill, faults,
                 runs, now, graph, boot, gaps, filter, slog, probe>>

\* one renewal interval passes; a running loop's ticker holds at most one tick
Advance ==
  /\ now < MaxTime
  /\ now' = now + 1
  /\ mgr' = IF mgr.loop = "select" \/ mgr.loop = "busy"
            THEN [mgr EXCEPT !.tick = TRUE] ELSE mgr
  /\ UNCHANGED <<mail, removed, store, deltaLinks, seen, queue, sync, syncUsers,
                 sweepIdx, http, resp, tasks, calls, lifecycle, backfill, faults,
                 runs, graph, boot, gaps, filter, slog, probe>>

\* ------------------------------------------------------------ main
\* main: pc is its position; bound, registered and ready describe the webhook
\* server (socket bound, handlers on the mux, ready channel closed), cancelled
\* the root context, closed the webhook server after server.Close
Running == [pc |-> "running", bound |-> TRUE, registered |-> TRUE, ready |-> TRUE,
            cancelled |-> FALSE, closed |-> FALSE, exit |-> 0]
Booting == [pc |-> "Serve", bound |-> FALSE, registered |-> FALSE, ready |-> FALSE,
            cancelled |-> FALSE, closed |-> FALSE, exit |-> 0]
NoGaps == <<>>

\* a startup that calls mgr.Start without binding the port or waiting for ready
Serve_NoWait ==
  /\ boot.pc = "Serve"
  /\ \E o \in Outcomes({"ok"}) :
       /\ faults' = Spend(o, {"err"})
       /\ boot' = IF o = "ok"
                  THEN [boot EXCEPT !.pc = "Start", !.registered = TRUE]
                  ELSE [boot EXCEPT !.pc = "exited", !.registered = TRUE,
                                    !.exit = 1]
       /\ mgr' = IF o = "ok"
                 THEN [mgr EXCEPT !.pc = "DiscoverUsers", !.caller = "Start"]
                 ELSE mgr
  /\ UNCHANGED <<mail, removed, store, deltaLinks, seen, queue, sync, syncUsers,
                 sweepIdx, http, resp, tasks, calls, lifecycle, backfill,
                 runs, now, graph, gaps, filter, slog, probe>>

\* webhook.Serve: the handlers are registered on the mux, then net.Listen
\* binds the port; a bind failure is returned and main exits with status 1
Serve ==
  /\ boot.pc = "Serve"
  /\ \E o \in Outcomes({"ok"}) :
       /\ faults' = Spend(o, {"err"})
       /\ boot' = IF o = "ok"
                  THEN [boot EXCEPT !.pc = "ready", !.registered = TRUE,
                                    !.bound = TRUE]
                  ELSE [boot EXCEPT !.pc = "exited", !.registered = TRUE,
                                    !.exit = 1]
  /\ UNCHANGED <<mail, removed, store, deltaLinks, seen, queue, sync, syncUsers,
                 sweepIdx, http, resp, tasks, calls, lifecycle, backfill,
                 runs, now, graph, mgr, gaps, filter, slog, probe>>

\* the goroutine started by Serve: close(ready), then server.Serve(ln)
serveReady ==
  /\ boot.bound
  /\ ~boot.ready
  /\ boot' = [boot EXCEPT !.ready = TRUE]
  /\ UNCHANGED <<mail, removed, store, deltaLinks, seen, queue, sync, syncUsers,
                 sweepIdx, http, resp, tasks, calls, lifecycle, backfill, faults,
                 runs, now, graph, mgr, gaps, filter, slog, probe>>

\* main receives from ready and calls mgr.Start
Start ==
  /\ boot.pc = "ready"
  /\ boot.ready
  /\ boot' = [boot EXCEPT !.pc = "Start"]
  /\ mgr' = [mgr EXCEPT !.pc = "DiscoverUsers", !.caller = "Start"]
  /\ UNCHANGED <<mail, removed, store, deltaLinks, seen, queue, sync, syncUsers,
                 sweepIdx, http, resp, tasks, calls, lifecycle, backfill, faults,
                 runs, now, graph, gaps, filter, slog, probe>>

\* phase 3, first loop: the stored delta links are loaded into the syncer's
\* cache (a failing ListByTenant is logged and the tenant skipped)
loadDeltaLinks ==
  /\ boot.pc = "ListByTenant"
  /\ \E o \in Outcomes({"ok"}) :
       /\ faults' = Spend(o, {"err"})
       /\ deltaLinks' = IF o = "ok"
                        THEN [k \in Keys |->
                                IF store[k].present /\ store[k].DeltaLink # NoLink
                                THEN store[k].DeltaLink ELSE deltaLinks[k]]
                        ELSE deltaLinks
  /\ boot' = [boot EXCEPT !.pc = "StartPeriodicSync"]
  /\ UNCHANGED <<mail, removed, store, seen, queue, sync, syncUsers,
                 sweepIdx, http, resp, tasks, calls, lifecycle, backfill,
                 runs, now, graph, mgr, gaps, filter, slog, probe>>

\* phase 3, second loop: the users of the tenant's rows (none if ListByTenant
\* fails: its error is dropped) are handed to StartPeriodicSync
StartPeriodicSync ==
  /\ boot.pc = "StartPeriodicSync"
  /\ \E o \in Outcomes({"ok"}) :
       /\ faults' = Spend(o, {"err"})
       /\ syncUsers' = IF o = "ok" /\ TenantAlias \in graphClients
                       THEN ListByTenant(store) ELSE <<>>
  /\ boot' = [boot EXCEPT !.pc = "running"]
  /\ UNCHANGED <<mail, removed, store, deltaLinks, seen, queue, sync,
                 sweepIdx, http, resp, tasks, calls, lifecycle, backfill,
                 runs, now, graph, mgr, gaps, filter, slog, probe>>

\* SIGINT or SIGTERM: the shutdown goroutine cancels the root context and
\* calls mgr.Stop
Signal ==
  /\ boot.pc = "running"
  /\ boot' = [boot EXCEPT !.pc = "mgr.Stop", !.cancelled = TRUE]
  /\ UNCHANGED <<mail, removed, store, deltaLinks, seen, queue, sync, syncUsers,
                 sweepIdx, http, resp, tasks, calls, lifecycle, backfill, faults,
                 runs, now, graph, mgr, gaps, filter, slog, probe>>

\* the goroutine started by Serve that waits for ctx.Done: server.Close()
serverClose ==
  /\ boot.cancelled
  /\ ~boot.closed
  /\ boot' = [boot EXCEPT !.closed = TRUE]
  /\ UNCHANGED <<mail, removed, store, deltaLinks, seen, queue, sync, syncUsers,
                 sweepIdx, http, resp, tasks, calls, lifecycle, backfill, faults,
                 runs, now, graph, mgr, gaps, filter, slog, probe>>

\* LifecycleManager.Stop: cancel, then wg.Wait, which counts the renewal loop
Stop ==
  /\ boot.pc = "mgr.Stop"
  /\ mgr.loop = "exited"
  /\ boot' = [boot EXCEPT !.pc = "syncer.Stop"]
  /\ UNCHANGED <<mail, removed, store, deltaLinks, seen, queue, sync, syncUsers,
                 sweepIdx, http, resp, tasks, calls, lifecycle, backfill, faults,
                 runs, now, graph, mgr, gaps, filter, slog, probe>>

\* Syncer.Stop: cancel, then wg.Wait, which counts the sweep goroutine
syncerStop ==
  /\ boot.pc = "syncer.Stop"
  /\ sync["sweep"].pc = "idle"
  /\ boot' = [boot EXCEPT !.pc = "Shutdown"]
  /\ UNCHANGED <<mail, removed, store, deltaLinks, seen, queue, sync, syncUsers,
                 sweepIdx, http, resp, tasks, calls, lifecycle, backfill, faults,
                 runs, now, graph, mgr, gaps, filter, slog, probe>>

\* the health server is shut down, Redis and Postgres are closed, main returns
Shutdown ==
  /\ boot.pc = "Shutdown"
  /\ boot' = [boot EXCEPT !.pc = "exited"]
  /\ UNCHANGED <<mail, removed, store, deltaLinks, seen, queue, sync, syncUsers,
                 sweepIdx, http, resp, tasks, calls, lifecycle, backfill, faults,
                 runs, now, graph, mgr, gaps, filter, slog, probe>>

\* a goroutine started by `go m.OnGapDetected(context.Background(), ...)`
\* runs the callback wired in main: SyncMailbox for the tenant's user
goOnGapDetected ==
  /\ gaps # <<>>
  /\ sync["gap"].pc = "idle"
  /\ gaps' = Tail(gaps)
  /\ sync' = [sync EXCEPT !["gap"] =
        IF TenantAlias \in graphClients
        THEN [Idle EXCEPT !.pc = "call", !.user = Head(gaps)]
        ELSE @]
  /\ UNCHANGED <<mail, removed, store, deltaLinks, seen, queue, sweepIdx,
                 syncUsers, http, resp, tasks, calls, lifecycle, faults, runs,
                 backfill, now, graph, mgr, boot, filter, slog, probe>>

NextManager ==
  \/ DiscoverUsers
  \/ ensureSubscription
  \/ createSubscription
  \/ createUpsert
  \/ renewSubscription
  \/ renewUpdateExpiry
  \/ renewMarkRemoved

NextStartup ==
  \/ Serve
  \/ serveReady
  \/ Start
  \/ loadDeltaLinks
  \/ StartPeriodicSync

Init ==
  /\ mail = <<>>
  /\ removed = {}
  /\ store \in [Keys -> {NoRec, Row("sub-1", TenantAlias, "s1", maxSubscriptionMinutes)}]
  /\ syncUsers = ListByTenant(store)
  /\ deltaLinks = [k \in Keys |-> NoLink]
  /\ seen = {}
  /\ queue = <<>>
  /\ sync = [p \in Procs |-> Idle]
  /\ sweepIdx = 0
  /\ http = [r \in Conns |-> NoRequest]
  /\ resp = [r \in Conns |-> NoResponse]
  /\ tasks = [r \in Conns |-> NoTask]
  /\ calls = [r \in Conns |-> {}]
  /\ lifecycle = [r \in Conns |-> <<>>]
  /\ backfill = NoRun
  /\ faults = MaxFaults
  /\ runs = MaxRuns
  /\ now = 0
  /\ graph = NoGraph
  /\ mgr = NoManager
  /\ boot = Running
  /\ gaps = NoGaps
  /\ filter = NoFilter
  /\ slog = {}
  /\ probe = NoProbe

Next == NextProvider \/ NextSync \/ NextWebhook \/ NextBackfill

Spec == Init /\ [][Next]_vars

SpecSync == Init /\ [][NextProvider \/ NextSync]_vars

SpecWebhook == Init /\ [][NextProvider \/ NextWebhook]_vars

SpecBackfill == Init /\ [][NextProvider \/ NextBackfill]_vars

\* the three pipelines side by side in a run without failures: every call
\* answers, every mailbox has its row, Graph sends genuine notifications
InitPipeline ==
  /\ mail = <<>>
  /\ removed = {}
  /\ store = [k \in Keys |-> Row("sub-1", TenantAlias, "s1", maxSubscriptionMinutes)]
  /\ syncUsers = ListByTenant(store)
  /\ deltaLinks = [k \in Keys |-> NoLink]
  /\ seen = {}
  /\ queue = <<>>
  /\ sync = [p \in Procs |-> Idle]
  /\ sweepIdx = 0
  /\ http = [r \in Conns |-> NoRequest]
  /\ resp = [r \in Conns |-> NoResponse]
  /\ tasks = [r \in Conns |-> NoTask]
  /\ calls = [r \in Conns |-> {}]
  /\ lifecycle = [r \in Conns |-> <<>>]
  /\ backfill = NoRun
  /\ faults = 0
  /\ runs = MaxRuns
  /\ now = 0
  /\ graph = NoGraph
  /\ mgr = NoManager
  /\ boot = Running
  /\ gaps = NoGaps
  /\ filter = NoFilter
  /\ slog = {}
  /\ probe = NoProbe

NextPipeline ==
  \/ \E u \in Users : ProviderCreate(u)
  \/ NextSync
  \/ \E r \in Conns : ServeNotification(r, GenuineRequests)
  \/ \E r \in Conns : processNotifications(r)
  \/ NextBackfill

SpecPipeline == InitPipeline /\ [][NextPipeline]_vars

\* the service from its start: the webhook server, mgr.Start, the renewal
\* loop under a running clock, Graph dropping subscriptions and sending
\* lifecycle notifications; the store holds what an earlier run left
StoredRows ==
  {NoRec,
   Row("sub-1", TenantAlias, "s1", 0),
   Row("sub-1", TenantAlias, "s1", maxSubscriptionMinutes),
   [Row("sub-1", TenantAlias, "s1", maxSubscriptionMinutes) EXCEPT !.Status = "removed"]}

InitManager ==
  /\ mail = <<>>
  /\ removed = {}
  /\ store \in [Keys -> StoredRows]
  /\ syncUsers = <<>>
  /\ deltaLinks = [k \in Keys |-> NoLink]
  /\ seen = {}
  /\ queue = <<>>
  /\ sync = [p \in Procs |-> Idle]
  /\ sweepIdx = 0
  /\ http = [r \in Conns |-> NoRequest]
  /\ resp = [r \in Conns |-> NoResponse]
  /\ tasks = [r \in Conns |-> NoTask]
  /\ calls = [r \in Conns |-> {}]
  /\ lifecycle = [r \in Conns |-> <<>>]
  /\ backfill = NoRun
  /\ faults = MaxFaults
  /\ runs = MaxRuns
  /\ now = 0
  /\ graph = NoGraph
  /\ mgr = NoManager
  /\ boot = Booting
  /\ gaps = NoGaps
  /\ filter = NoFilter
  /\ slog = {}
  /\ probe = NoProbe

\* the process runs until main returns or calls os.Exit
Alive == boot.pc # "exited"

NextLifecycle ==
  \/ NextStartup
  \/ NextManager
  \/ renewExpiring
  \/ Advance
  \/ ProviderExpire("sub-1")
  \/ ProviderExpire("sub-2")
  \/ \E r \in Conns :
       Alive /\ boot.ready /\ ~boot.closed /\ ServeLifecycle(r, LifecycleEventRequests)

SpecManager == InitManager /\ [][NextLifecycle]_vars

\* the service from its start to its shutdown in a run without failures that
\* is stopped within its first renewal interval: the sweep, the gap recoveries
\* the manager starts, genuine notifications, then the signal; Graph may have
\* dropped the subscription an earlier run left
InitShutdown ==
  /\ mail = <<>>
  /\ removed = {}
  /\ store \in [Keys -> StoredRows]
  /\ syncUsers = <<>>
  /\ deltaLinks = [k \in Keys |-> NoLink]
  /\ seen = {}
  /\ queue = <<>>
  /\ sync = [p \in Procs |-> Idle]
  /\ sweepIdx = 0
  /\ http = [r \in Conns |-> NoRequest]
  /\ resp = [r \in Conns |-> NoResponse]
  /\ tasks = [r \in Conns |-> NoTask]
  /\ calls = [r \in Conns |-> {}]
  /\ lifecycle = [r \in Conns |-> <<>>]
  /\ backfill = NoRun
  /\ faults = 0
  /\ runs = 1
  /\ now = 0
  /\ (graph = NoGraph \/ graph = [NoGraph EXCEPT !.subs = {}])
  /\ mgr = NoManager
  /\ boot = Booting
  /\ gaps = NoGaps
  /\ filter = NoFilter
  /\ slog = {}
  /\ probe = NoProbe

NextShutdown ==
  \/ NextStartup
  \/ NextManager
  \/ \E u \in Users : ProviderCreate(u)
  \/ Alive /\ boot.pc = "running" /\ SweepTick
  \/ Alive /\ goOnGapDetected
  \/ \E p \in Procs : Alive /\ SyncMailbox(p)
  \/ \E p \in Procs : Alive /\ fetchDeltaPage(p)
  \/ \E p \in Procs : Alive /\ deltaIsNew(p)
  \/ \E p \in Procs : Alive /\ deltaFetchMessage(p)
  \/ \E p \in Procs : Alive /\ deltaPublish(p)
  \/ \E p \in Procs : Alive /\ saveDeltaLinkCache(p)
  \/ \E p \in Procs : Alive /\ saveDeltaLinkStore(p)
  \/ \E r \in Conns :
       Alive /\ boot.ready /\ ~boot.closed /\ ServeNotification(r, GenuineRequests)
  \/ \E r \in Conns : Alive /\ processNotifications(r)
  \/ Signal
  \/ Alive /\ serverClose
  \/ renewalLoopDone
  \/ Stop
  \/ syncerStop
  \/ Shutdown

SpecShutdown == InitShutdown /\ [][NextShutdown]_vars

\* ------------------------------------------------------------ startup, two mailboxes
\* the tenant's directory holds two mailboxes: u1 has any of the stored rows,
\* u2 none or an active row, due, whose subscription Graph no longer has
Mailboxes == <<"u1", "u2">>
InitStart ==
  /\ mail = <<>>
  /\ removed = {}
  /\ store \in {f \in [{Key(TenantID, "u1"), Key(TenantID, "u2")} ->
                          StoredRows \cup {Row("sub-0", TenantAlias, "s0", 0)}] :
                  /\ f[Key(TenantID, "u1")] \in StoredRows
                  /\ f[Key(TenantID, "u2")] \in {NoRec, Row("sub-0", TenantAlias, "s0", 0)}}
  /\ syncUsers = <<>>
  /\ deltaLinks = [k \in Keys |-> NoLink]
  /\ seen = {}
  /\ queue = <<>>
  /\ sync = [p \in Procs |-> Idle]
  /\ sweepIdx = 0
  /\ http = [r \in Conns |-> NoRequest]
  /\ resp = [r \in Conns |-> NoResponse]
  /\ tasks = [r \in Conns |-> NoTask]
  /\ calls = [r \in Conns |-> {}]
  /\ lifecycle = [r \in Conns |-> <<>>]
  /\ backfill = NoRun
  /\ faults = MaxFaults
  /\ runs = MaxRuns
  /\ now \in 0..1
  /\ graph = [NoGraph EXCEPT !.users = Mailboxes]
  /\ mgr = NoManager
  /\ boot = Booting
  /\ gaps = NoGaps
  /\ filter = NoFilter
  /\ slog = {}
  /\ probe = NoProbe

SpecStart == InitStart /\ [][NextStartup \/ NextManager]_vars

\* ------------------------------------------------------------ the sweep, two mailboxes
\* StartPeriodicSync was given both mailboxes; u1 receives mail, u2 does not
InitSweep ==
  /\ mail = <<>>
  /\ removed = {}
  /\ store = (Key(TenantID, "u1") :> Row("sub-1", TenantAlias, "s1", maxSubscriptionMinutes))
               @@ (Key(TenantID, "u2") :> Row("sub-0", TenantAlias, "s0", maxSubscriptionMinutes))
  /\ syncUsers = Mailboxes
  /\ deltaLinks = [k \in DOMAIN store |-> NoLink]
  /\ seen = {}
  /\ queue = <<>>
  /\ sync = [p \in Procs |-> Idle]
  /\ sweepIdx = 0
  /\ http = [r \in Conns |-> NoRequest]
  /\ resp = [r \in Conns |-> NoResponse]
  /\ tasks = [r \in Conns |-> NoTask]
  /\ calls = [r \in Conns |-> {}]
  /\ lifecycle = [r \in Conns |-> <<>>]
  /\ backfill = NoRun
  /\ faults = MaxFaults
  /\ runs = MaxRuns
  /\ now = 0
  /\ graph = [NoGraph EXCEPT !.users = Mailboxes]
  /\ mgr = NoManager
  /\ boot = Running
  /\ gaps = NoGaps
  /\ filter = NoFilter
  /\ slog = {}
  /\ probe = NoProbe

NextSweep ==
  \/ \E u \in Users : ProviderCreate(u)
  \/ SweepTick
  \/ \E p \in Procs : SyncMailbox(p)
  \/ \E p \in Procs : fetchDeltaPage(p)
  \/ \E p \in Procs : deltaIsNew(p)
  \/ \E p \in Procs : deltaFetchMessage(p)
  \/ \E p \in Procs : deltaPublish(p)
  \/ \E p \in Procs : saveDeltaLinkCache(p)
  \/ \E p \in Procs : saveDeltaLinkStore(p)

SpecSweep == InitSweep /\ [][NextSweep]_vars

\* ---- the subscriptions table under its callers
\* what the callers pass: Graph's subscription id with the secret generated
\* for it, and an expiry
UpsertRecords ==
  {[SubscriptionID |-> "sub-1", ClientState |-> "s1", ExpiresAt |-> 1],
   [SubscriptionID |-> "sub-2", ClientState |-> "s2", ExpiresAt |-> maxSubscriptionMinutes],
   [SubscriptionID |-> "sub-0", ClientState |-> "s3", ExpiresAt |-> maxSubscriptionMinutes]}
StoredIDs == {"sub-0", "sub-1", "sub-2"}
Expiries == {1, maxSubscriptionMinutes}
RecordKeys == {Key(TenantID, "u1"), Key(TenantID, "u2")}

\* Manager.createSubscription: m.store.Upsert(ctx, record)
storeUpsert ==
  \E k \in RecordKeys : \E r \in UpsertRecords :
    /\ store' = Upsert(k, r.SubscriptionID, TenantAlias, r.ClientState, r.ExpiresAt)
    /\ store' # store
    /\ UNCHANGED <<mail, removed, deltaLinks, seen, queue, sync, syncUsers, sweepIdx,
                   http, resp, tasks, calls, lifecycle, faults, runs, backfill,
                   managerVars, filter, slog, probe>>

\* Manager.renewSubscription: m.store.UpdateExpiry(ctx, rec.SubscriptionID, newExpiry)
storeUpdateExpiry ==
  \E id \in StoredIDs : \E e \in Expiries :
    /\ store' = UpdateExpiry(id, e)
    /\ store' # store
    /\ UNCHANGED <<mail, removed, deltaLinks, seen, queue, sync, syncUsers, sweepIdx,
                   http, resp, tasks, calls, lifecycle, faults, runs, backfill,
                   managerVars, filter, slog, probe>>

\* Manager.renewSubscription and HandleLifecycleEvent:
\* m.store.MarkStatus(ctx, subscriptionID, "removed")
storeMarkStatus ==
  \E id \in StoredIDs :
    /\ store' = MarkStatus(id, "removed")
    /\ store' # store
    /\ UNCHANGED <<mail, removed, deltaLinks, seen, queue, sync, syncUsers, sweepIdx,
                   http, resp, tasks, calls, lifecycle, faults, runs, backfill,
                   managerVars, filter, slog, probe>>

\* Handler.processNotifications: h.store.TouchNotification(ctx, n.TenantID, userID)
storeTouchNotification ==
  \E k \in RecordKeys :
    /\ store' = TouchNotification(k)
    /\ store' # store
    /\ UNCHANGED <<mail, removed, deltaLinks, seen, queue, sync, syncUsers, sweepIdx,
                   http, resp, tasks, calls, lifecycle, faults, runs, backfill,
                   managerVars, filter, slog, probe>>

\* u1 has its subscription and is swept; u2 is not subscribed yet
InitRecords ==
  /\ mail = <<>>
  /\ removed = {}
  /\ store = (Key(TenantID, "u1") :> Row("sub-1", TenantAlias, "s1", maxSubscriptionMinutes))
               @@ (Key(TenantID, "u2") :> NoRec)
  /\ syncUsers = <<"u1">>
  /\ deltaLinks = [k \in DOMAIN store |-> NoLink]
  /\ seen = {}
  /\ queue = <<>>
  /\ sync = [p \in Procs |-> Idle]
  /\ sweepIdx = 0
  /\ http = [r \in Conns |-> NoRequest]
  /\ resp = [r \in Conns |-> NoResponse]
  /\ tasks = [r \in Conns |-> NoTask]
  /\ calls = [r \in Conns |-> {}]
  /\ lifecycle = [r \in Conns |-> <<>>]
  /\ backfill = NoRun
  /\ faults = MaxFaults
  /\ runs = MaxRuns
  /\ now = 0
  /\ graph = [NoGraph EXCEPT !.users = Mailboxes]
  /\ mgr = NoManager
  /\ boot = Running
  /\ gaps = NoGaps
  /\ filter = NoFilter
  /\ slog = {}
  /\ probe = NoProbe

NextRecords ==
  \/ \E u \in Users : ProviderCreate(u)
  \/ SweepTick
  \/ \E p \in Procs : SyncMailbox(p)
  \/ \E p \in Procs : fetchDeltaPage(p)
  \/ \E p \in Procs : deltaIsNew(p)
  \/ \E p \in Procs : deltaFetchMessage(p)
  \/ \E p \in Procs : deltaPublish(p)
  \/ \E p \in Procs : saveDeltaLinkCache(p)
  \/ \E p \in Procs : saveDeltaLinkStore(p)
  \/ storeUpsert
  \/ storeUpdateExpiry
  \/ storeMarkStatus
  \/ storeTouchNotification

SpecRecords == InitRecords /\ [][NextRecords]_vars

\* ---- push batches of two notifications
\* a body with two notifications: any change notification, then a genuine one
BatchRequests ==
  {Request(NotificationPath, "POST", "", [json |-> TRUE, Value |-> <<a, Genuine(m)>>]) :
     a \in ChangeNotifications, m \in Msgs}

\* u1 is subscribed and holds message 1; message 2 does not exist (yet)
InitBatch ==
  /\ mail = <<"u1">>
  /\ removed = {}
  /\ store = [k \in Keys |-> Row("sub-1", TenantAlias, "s1", maxSubscriptionMinutes)]
  /\ syncUsers = ListByTenant(store)
  /\ deltaLinks = [k \in Keys |-> NoLink]
  /\ seen = {}
  /\ queue = <<>>
  /\ sync = [p \in Procs |-> Idle]
  /\ sweepIdx = 0
  /\ http = [r \in Conns |-> NoRequest]
  /\ resp = [r \in Conns |-> NoResponse]
  /\ tasks = [r \in Conns |-> NoTask]
  /\ calls = [r \in Conns |-> {}]
  /\ lifecycle = [r \in Conns |-> <<>>]
  /\ backfill = NoRun
  /\ faults = MaxFaults
  /\ runs = MaxRuns
  /\ now = 0
  /\ graph = NoGraph
  /\ mgr = NoManager
  /\ boot = Running
  /\ gaps = NoGaps
  /\ filter = NoFilter
  /\ slog = {}
  /\ probe = NoProbe

NextBatch ==
  \/ \E u \in Users : ProviderCreate(u)
  \/ \E r \in Conns : ServeNotification(r, BatchRequests)
  \/ \E r \in Conns : pushGet(r)
  \/ \E r \in Conns : pushTouchNotification(r)
  \/ \E r \in Conns : pushIsNew(r)
  \/ \E r \in Conns : pushFetchMessage(r)
  \/ \E r \in Conns : pushPublish(r)

SpecBatch == InitBatch /\ [][NextBatch]_vars

\* ---- functions of the service called on their own
\* the service as constructed, nothing started
Constructed ==
  /\ mail = <<>>
  /\ removed = {}
  /\ store = [k \in Keys |-> NoRec]
  /\ syncUsers = <<>>
  /\ deltaLinks = [k \in Keys |-> NoLink]
  /\ seen = {}
  /\ queue = <<>>
  /\ sync = [p \in Procs |-> Idle]
  /\ sweepIdx = 0
  /\ http = [r \in Conns |-> NoRequest]
  /\ resp = [r \in Conns |-> NoResponse]
  /\ tasks = [r \in Conns |-> NoTask]
  /\ calls = [r \in Conns |-> {}]
  /\ lifecycle = [r \in Conns |-> <<>>]
  /\ backfill = NoRun
  /\ faults = 0
  /\ runs = 0
  /\ now = 0
  /\ graph = NoGraph
  /\ mgr = NoManager
  /\ boot = Running
  /\ gaps = NoGaps
  /\ filter = NoFilter
  /\ slog = {}

Call(op, in) == [op |-> op, in |-> in, out |-> <<>>, done |-> FALSE]

\* what the transport gives back for the GET of a message: an error of
\* client.Do, or a status with a body that json decodes or does not
HTTPStatuses == {200, 201, 204, 302, 400, 401, 403, 404, 410, 429, 500, 503}
Transports ==
  {[err |-> TRUE, status |-> 0, body |-> ""]}
    \cup {[err |-> FALSE, status |-> c, body |-> b] :
            c \in HTTPStatuses, b \in {"message", "not json"}}
FetchInputs == {[tenantAlias |-> a, answer |-> t] : a \in {TenantAlias, "a2", ""},
                                                    t \in Transports}

\* a FetchMessage for which a missing message is an error
FetchMessage_NotFoundIsError(tenantAlias, answer) ==
  IF tenantAlias \notin graphClients
  THEN [event |-> FALSE, err |-> TRUE, called |-> FALSE]
  ELSE IF answer.err THEN [event |-> FALSE, err |-> TRUE, called |-> TRUE]
  ELSE IF answer.status # 200 THEN [event |-> FALSE, err |-> TRUE, called |-> TRUE]
  ELSE IF answer.body # "message" THEN [event |-> FALSE, err |-> TRUE, called |-> TRUE]
  ELSE [event |-> TRUE, err |-> FALSE, called |-> TRUE]

\* Fetcher.FetchMessage: the client of the alias, the GET, the status, the
\* decoding of the body; whether an event and whether an error is returned,
\* and whether the provider was called
FetchMessage(tenantAlias, answer) ==
  IF tenantAlias \notin graphClients
  THEN [event |-> FALSE, err |-> TRUE, called |-> FALSE]
  ELSE IF answer.err THEN [event |-> FALSE, err |-> TRUE, called |-> TRUE]
  ELSE IF answer.status = 404 THEN [event |-> FALSE, err |-> FALSE, called |-> TRUE]
  ELSE IF answer.status # 200 THEN [event |-> FALSE, err |-> TRUE, called |-> TRUE]
  ELSE IF answer.body # "message" THEN [event |-> FALSE, err |-> TRUE, called |-> TRUE]
  ELSE [event |-> TRUE, err |-> FALSE, called |-> TRUE]

callFetchMessage ==
  /\ probe.op = "FetchMessage" /\ ~probe.done
  /\ probe' = [probe EXCEPT !.out = FetchMessage(probe.in.tenantAlias, probe.in.answer),
                            !.done = TRUE]
  /\ UNCHANGED <<mail, removed, store, deltaLinks, seen, queue, sync, syncUsers,
                 sweepIdx, http, resp, tasks, calls, lifecycle, faults, runs,
                 backfill, managerVars, filter, slog>>

InitFetch ==
  /\ Constructed
  /\ probe \in {Call("FetchMessage", i) : i \in FetchInputs}

SpecFetch == InitFetch /\ [][callFetchMessage]_vars

\* ---- Discovery.DiscoverUsers
\* the addresses of the configuration and of the directory; a directory user
\* without a mailbox has the mail ""
Addresses == {"a@x", "A@X", "b@x"}
Mails == Addresses \cup {""}

\* strings.ToLower
ToLower(w) == IF w = "A@X" THEN "a@x" ELSE w

\* the sequences over S of length at most n
RECURSIVE SeqsUpTo(_, _)
SeqsUpTo(S, n) ==
  IF n = 0 THEN {<<>>}
  ELSE SeqsUpTo(S, n - 1)
         \cup {Append(q, x) : q \in {c \in SeqsUpTo(S, n - 1) : Len(c) = n - 1}, x \in S}

\* a response to GET /users: a status and, with 200, the users of the page;
\* a page that is not the last carries the @odata.nextLink of the next
UsersPages ==
  {[status |-> 200, value |-> v] : v \in SeqsUpTo(Mails, MaxList)}
    \cup {[status |-> 500, value |-> <<>>]}

\* the calls with lists of at most n addresses and a directory of at most m
\* pages: with an include-list, or without one
DiscoverInputs(n, m) ==
  {[includeUsers |-> inc, excludeUsers |-> exc, pages |-> <<[status |-> 200, value |-> <<"b@x">>]>>] :
     inc \in SeqsUpTo(Addresses, n) \ {<<>>}, exc \in SeqsUpTo(Addresses, n)}
    \cup {[includeUsers |-> <<>>, excludeUsers |-> exc, pages |-> ps] :
            exc \in SeqsUpTo(Addresses, n),
            ps \in SeqsUpTo(UsersPages, m) \ {<<>>}}

excludeSet(excludeUsers) == {ToLower(excludeUsers[i]) : i \in 1..Len(excludeUsers)}

\* the auto-discovery loop: GET the page, an error unless 200, keep the users
\* that have a mail and are not excluded, go on with the nextLink
RECURSIVE discoverPages(_, _, _, _)
discoverPages(pages, excludeUsers, users, n) ==
  IF pages = <<>> THEN [users |-> users, err |-> FALSE, calls |-> n]
  ELSE IF pages[1].status # 200 THEN [users |-> <<>>, err |-> TRUE, calls |-> n + 1]
  ELSE discoverPages(
         Tail(pages), excludeUsers,
         users \o SelectSeq(pages[1].value,
                            LAMBDA m : m # "" /\ ToLower(m) \notin excludeSet(excludeUsers)),
         n + 1)

\* a discovery that compares the include-list with the exclude-list as
\* they are written
Discovery_DiscoverUsers_ExactCase(includeUsers, excludeUsers, pages) ==
  IF Len(includeUsers) > 0
  THEN [users |-> SelectSeq(includeUsers,
                            LAMBDA m : m \notin {excludeUsers[i] : i \in 1..Len(excludeUsers)}),
        err |-> FALSE, calls |-> 0]
  ELSE discoverPages(pages, excludeUsers, <<>>, 0)

\* Discovery.DiscoverUsers: the mails of the users returned, whether an error
\* is returned, and the number of requests made
Discovery_DiscoverUsers(includeUsers, excludeUsers, pages) ==
  IF Len(includeUsers) > 0
  THEN [users |-> SelectSeq(includeUsers,
                            LAMBDA m : ToLower(m) \notin excludeSet(excludeUsers)),
        err |-> FALSE, calls |-> 0]
  ELSE discoverPages(pages, excludeUsers, <<>>, 0)

callDiscoverUsers ==
  /\ probe.op = "DiscoverUsers" /\ ~probe.done
  /\ probe' = [probe EXCEPT !.out = Discovery_DiscoverUsers(probe.in.includeUsers,
                                       probe.in.excludeUsers, probe.in.pages),
                            !.done = TRUE]
  /\ UNCHANGED <<mail, removed, store, deltaLinks, seen, queue, sync, syncUsers,
                 sweepIdx, http, resp, tasks, calls, lifecycle, faults, runs,
                 backfill, managerVars, filter, slog>>

InitDiscovery ==
  /\ Constructed
  /\ probe \in {Call("DiscoverUsers", i) : i \in DiscoverInputs(MaxList, MaxPages)}

SpecDiscovery == InitDiscovery /\ [][callDiscoverUsers]_vars

\* ---- parseResource
\* the segments a resource string splits into at "/"
Words == {"users", "Users", "messages", "Messages", "folders", "u1", ""}
\* the resources of at most n segments
Resources(n) == SeqsUpTo(Words, n) \ {<<>>}

callParseResource ==
  /\ probe.op = "parseResource" /\ ~probe.done
  /\ probe' = [probe EXCEPT !.out = parseResource(probe.in), !.done = TRUE]
  /\ UNCHANGED <<mail, removed, store, deltaLinks, seen, queue, sync, syncUsers,
                 sweepIdx, http, resp, tasks, calls, lifecycle, faults, runs,
                 backfill, managerVars, filter, slog>>

InitResource ==
  /\ Constructed
  /\ probe \in {Call("parseResource", i) : i \in Resources(MaxSegments)}

SpecResource == InitResource /\ [][callParseResource]_vars

\* ------------------------------------------------------------ Redis outage
\* the three callers of IsNew at work while calls fail up to MaxOutage times;
\* the mailbox was synced by an earlier run of the service (token loaded at
\* startup) and has received one message since
InitOutage ==
  /\ mail = <<"u1">>
  /\ removed = {}
  /\ store = [k \in Keys |->
       [Row("sub-1", TenantAlias, "s1", maxSubscriptionMinutes)
          EXCEPT !.DeltaLink = <<"delta", 0>>]]
  /\ syncUsers = ListByTenant(store)
  /\ deltaLinks = [k \in Keys |-> store[k].DeltaLink]
  /\ seen = {}
  /\ queue = <<>>
  /\ sync = [p \in Procs |-> Idle]
  /\ sweepIdx = 0
  /\ http = [r \in Conns |-> NoRequest]
  /\ resp = [r \in Conns |-> NoResponse]
  /\ tasks = [r \in Conns |-> NoTask]
  /\ calls = [r \in Conns |-> {}]
  /\ lifecycle = [r \in Conns |-> <<>>]
  /\ backfill = NoRun
  /\ faults = MaxOutage
  /\ runs = MaxRuns
  /\ now = 0
  /\ graph = NoGraph
  /\ mgr = NoManager
  /\ boot = Running
  /\ gaps = NoGaps
  /\ filter = NoFilter
  /\ slog = {}
  /\ probe = NoProbe

NextOutage ==
  \/ NextSync
  \/ \E r \in Conns : ServeNotification(r, GenuineRequests)
  \/ \E r \in Conns : processNotifications(r)
  \/ NextBackfill

SpecOutage == InitOutage /\ [][NextOutage]_vars

\* ------------------------------------------------------------ the filter alone
\* goroutines calling IsNew on one Filter while the clock runs
SpecDedup == Init /\ [][NextFilter \/ Advance]_vars

\* ------------------------------------------------------------ delivery properties
Published(m) == \E i \in 1..Len(queue) : queue[i].MessageID = m

\* C1: a message that an incremental sync was handed (it was created in a
\* tracked mailbox after the token) and that the provider still holds has been
\* published once a sweep that began after the last failure has returned
\* success with a token at or past the message and no sync is running.
C1_FailedMessageRepublished ==
  \A m \in 1..Len(mail) :
    (/\ ~IsNew(<<"delta:", m>>)
     /\ Holds(mail[m], m)
     /\ \A p \in Procs : sync[p].pc = "idle"
     /\ sync["sweep"].clean
     /\ sync["sweep"].result = "ok"
     /\ sync["sweep"].lastDelta # NoLink
     /\ sync["sweep"].lastDelta[2] >= m)
    => Published(m)

\* C2: no message has two envelopes in the downstream queue, whichever of
\* push, delta sync and backfill published them.
C2_PublishedAtMostOnce ==
  \A i, j \in 1..Len(queue) :
    queue[i].MessageID = queue[j].MessageID => i = j

\* ------------------------------------------------------------ delta token properties
\* the step in which SyncMailbox returns to its caller
Returns(p) ==
  /\ sync[p].pc # "idle"
  /\ sync[p].pc # "call"
  /\ (sync'[p].pc = "idle" \/ sync'[p].pc = "call")

C4_StoreBeforeCache ==
  [][/\ \A k \in Keys :
          (deltaLinks'[k] # deltaLinks[k] /\ deltaLinks'[k] # NoLink)
          => store[k].DeltaLink = deltaLinks'[k]
     /\ \A p \in Procs :
          (Returns(p) /\ sync'[p].result = "persist error")
          => deltaLinks'[Key(TenantID, sync[p].user)] = sync[p].token]_vars

\* C5: in the cache and in the store, a token never gives way to a token the
\* provider issued earlier.
C5_TokenAdvanceMonotonic ==
  [][\A k \in Keys :
       /\ (deltaLinks[k] # NoLink /\ deltaLinks'[k] # NoLink)
          => deltaLinks'[k][2] >= deltaLinks[k][2]
       /\ (store[k].DeltaLink # NoLink /\ store'[k].DeltaLink # NoLink)
          => store'[k].DeltaLink[2] >= store[k].DeltaLink[2]]_vars

\* ------------------------------------------------------------ webhook properties
\* connection r holds a notification POST whose body parsed
Accepted(r) ==
  /\ http[r].path = NotificationPath
  /\ http[r].method = "POST"
  /\ http[r].validationToken = ""
  /\ http[r].body.json

\* notification i of the request on r is a "created" notification for a
\* mailbox whose row holds another secret than the one it echoes
Spoofed(r, i) ==
  LET n == http[r].body.Value[i]
      parsed == parseResource(n.Resource)
      rec == StoreGet(Key(n.TenantID, parsed.userID))
  IN /\ n.ChangeType = "created"
     /\ ~parsed.err
     /\ n.ClientState # ""
     /\ Key(n.TenantID, parsed.userID) \in Keys
     /\ rec.present
     /\ rec.ClientState # n.ClientState

CallsFor(r, i) == {c \in calls[r] : c[1] = i}

C7_NoRecordStillPublished ==
  [][\A r \in Conns :
       (/\ tasks[r].pc = "FetchMessage"
        /\ tasks'[r] # tasks[r]
        /\ ~StoreGet(Key(tasks[r].notifs[1].TenantID, tasks[r].userID)).present
        /\ Holds(tasks[r].userID, tasks[r].messageID)
        /\ faults' = faults)
       => tasks'[r].pc = "Publish"]_vars

\* C8: a notification POST with a parseable body is answered 202; the step
\* that receives it on a connection and writes the response makes no store,
\* dedup, provider or queue call;
\* and no step of the dispatch changes the response, whatever its outcome.
C8_AcceptedBeforeDispatch ==
  [][\A r \in Conns :
       (/\ http'[r].path = NotificationPath
        /\ http'[r].method = "POST"
        /\ http'[r].validationToken = ""
        /\ http'[r].body.json)
       => /\ resp'[r] = Response(202, "", "")
          /\ (runs' # runs /\ <<http'[r], resp'[r], tasks'[r], calls'[r]>>
                                 # <<http[r], resp[r], tasks[r], calls[r]>>) =>
               /\ calls'[r] = {}
               /\ UNCHANGED <<store, seen, queue>>
          /\ calls'[r] # calls[r] /\ calls'[r] # {} => resp'[r] = resp[r]]_vars

C8_Witness ==
  \E r \in Conns :
    /\ Accepted(r)
    /\ resp[r] = Response(202, "", "")
    /\ tasks[r].pc = "done"
    /\ <<1, "FetchMessage", "err">> \in calls[r]

\* C9: a POST with a validationToken, to either endpoint, is answered 200
\* text/plain with the token as body, and starts no dispatch, makes no call
\* and hands no event to the lifecycle manager.
C9_ValidationProbeEchoed ==
  \A r \in Conns :
    (http[r].method = "POST" /\ http[r].validationToken # "") =>
      /\ resp[r] = Response(200, "text/plain", http[r].validationToken)
      /\ tasks[r] = NoTask
      /\ calls[r] = {}
      /\ lifecycle[r] = <<>>

C9_Witness ==
  \E r \in Conns :
    /\ http[r].path = LifecyclePath
    /\ http[r].method = "POST"
    /\ http[r].validationToken = "tok"
    /\ http[r].body.json
    /\ Len(http[r].body.Value) = 1
    /\ http[r].body.Value[1].LifecycleEvent = "subscriptionRemoved"
    /\ resp[r] = Response(200, "text/plain", "tok")
    /\ \A k \in Keys : store[k].present => store[k].Status = "active"

\* C10: a notification POST whose body does not parse is answered 202 and
\* nothing is dispatched: no task is started and no call is made.
C10_UnparseableBodyAccepted ==
  \A r \in Conns :
    (/\ http[r].path = NotificationPath
     /\ http[r].method = "POST"
     /\ http[r].validationToken = ""
     /\ ~http[r].body.json)
    => /\ resp[r] = Response(202, "", "")
       /\ tasks[r] = NoTask
       /\ calls[r] = {}

C10_Witness ==
  \E r \in Conns :
    /\ http[r].path = NotificationPath
    /\ http[r].method = "POST"
    /\ http[r].validationToken = ""
    /\ ~http[r].body.json
    /\ resp[r] = Response(202, "", "")
    /\ Len(mail) > 0


\* C11: a request that is not a POST and carries no validationToken, to
\* either endpoint, is answered 200 and nothing is processed: no dispatch, no
\* call, no lifecycle event handled.
C11_NonPostAnswered200 ==
  \A r \in Conns :
    (http[r].method # "" /\ http[r].method # "POST" /\ http[r].validationToken = "") =>
      /\ resp[r].status = 200
      /\ tasks[r] = NoTask
      /\ calls[r] = {}
      /\ lifecycle[r] = <<>>

\* ------------------------------------------------------------ lifecycle properties
Creates == {i \in 1..Len(graph.log) : graph.log[i][1] = "POST"}

\* C12: the webhook socket is bound and the handlers are registered before
\* the manager's first create call: ready is signalled only after the listen
\* succeeded, mgr.Start runs only after ready, and a startup whose bind
\* failed makes no create call.
C12_ListeningBeforeFirstCreate ==
  /\ boot.ready => boot.bound /\ boot.registered
  /\ (boot.pc = "Start" \/ mgr.pc # "none" \/ mgr.loop # "off") => boot.ready
  /\ Creates # {} => boot.bound /\ boot.registered /\ boot.ready
  /\ (boot.pc = "exited" /\ ~boot.bound) => Creates = {}

C12_Witness == Creates # {} /\ boot.bound /\ mgr.caller = "Start"

\* the rows that were active at the time the last tick listed the store
ActiveBefore == {k \in Keys : mgr.before[k].present /\ mgr.before[k].Status = "active"}

C14_CreateWritesOnlyAfter201 ==
  [][LET k == Key(TenantID, mgr.userID)
     IN /\ (mgr.pc = "POST" /\ graph'.log # graph.log) =>
             /\ store' = store
             /\ gaps' = gaps
             /\ mgr'.pc = "Upsert" =>
                  /\ graph'.issued = graph.issued + 1
                  /\ mgr'.id = SubscriptionIDs[graph'.issued]
        /\ (mgr.pc = "Upsert" /\ mgr'.pc # "Upsert") =>
             \/ store' = store /\ gaps' = gaps
             \/ /\ store'[k].present
                /\ store'[k].Status = "active"
                /\ store'[k].SubscriptionID = mgr.id
                /\ store'[k].SubscriptionID # store[k].SubscriptionID
                /\ store'[k].ClientState = generateClientState(mgr.minted)
                /\ store'[k].ClientState # store[k].ClientState
                /\ gaps' = Append(gaps, mgr.userID)
                /\ sync' = sync
        /\ (mgr.pc # "Upsert" /\ ~(mgr.pc = "none" /\ mgr.loop # "busy")) =>
             gaps' = gaps]_vars

C14_Witness ==
  /\ Len(gaps) = 1
  /\ store[Key(TenantID, gaps[1])].Status = "active"
  /\ store[Key(TenantID, gaps[1])].SubscriptionID = "sub-2"
  /\ store[Key(TenantID, gaps[1])].ClientState = generateClientState(1)

\* C15: a renewal PATCH answered 404 is followed by MarkStatus(removed) for
\* the old subscription, then by a create POST for the same mailbox; when the
\* calls succeed the old row is marked removed, the new id is persisted as
\* active and OnGapDetected is started exactly once (no step of the renewal
\* other than the upsert starts it).
C15_NotFoundRenewalRecreates ==
  [][LET k == Key(TenantID, mgr.userID)
         old == mgr.rec.SubscriptionID
     IN /\ (mgr.pc = "PATCH" /\ graph'.log # graph.log /\ old \notin graph.subs
              /\ faults' = faults) =>
             /\ mgr'.pc = "MarkStatus"
             /\ gaps' = gaps
        /\ (mgr.pc = "MarkStatus" /\ mgr'.pc # "MarkStatus") =>
             /\ mgr'.pc = "POST"
             /\ mgr'.userID = mgr.userID
             /\ gaps' = gaps
             /\ faults' = faults =>
                  \A j \in Keys :
                    (store[j].present /\ store[j].SubscriptionID = old) =>
                      store'[j].Status = "removed"
        /\ (mgr.pc = "POST" /\ mgr.rec.present /\ mgr'.pc # "POST") =>
             /\ graph'.log = Append(graph.log, <<"POST", mgr.userID>>)
             /\ gaps' = gaps
             /\ faults' = faults => mgr'.pc = "Upsert"
        /\ (mgr.pc = "Upsert" /\ mgr.rec.present /\ mgr'.pc # "Upsert"
              /\ faults' = faults) =>
             /\ store'[k].SubscriptionID = mgr.id
             /\ store'[k].SubscriptionID # old
             /\ store'[k].Status = "active"
             /\ gaps' = Append(gaps, mgr.userID)]_vars

C15_Witness ==
  /\ \E i \in 1..Len(graph.log) - 1 :
       /\ graph.log[i] = <<"PATCH", "sub-1">>
       /\ graph.log[i + 1] = <<"POST", "u1">>
  /\ store[Key(TenantID, "u1")].Status = "active"
  /\ store[Key(TenantID, "u1")].SubscriptionID # "sub-1"
  /\ gaps = <<"u1">>

\* C16: after a subscriptionRemoved event the record of that subscription has
\* status removed, and the renewal tick that follows re-creates a
\* subscription for its mailbox: once a tick that found the record removed
\* has run to its end without a failure, the record carries a new
\* subscription.
C16_RemovedRecreatedByNextTick ==
  /\ \A r \in Conns : \A i \in 1..Len(http[r].body.Value) :
       (lifecycle[r] # <<>>
          /\ http[r].body.Value[i].LifecycleEvent = "subscriptionRemoved") =>
         \A k \in Keys :
           (store[k].present
              /\ store[k].SubscriptionID = http[r].body.Value[i].SubscriptionID) =>
             store[k].Status = "removed"
  /\ (mgr.tickDone /\ mgr.listed /\ mgr.clean) =>
       \A k \in Keys :
         (mgr.before[k].present /\ mgr.before[k].Status = "removed"
            /\ \E r \in Conns : \E i \in 1..Len(http[r].body.Value) :
                 /\ lifecycle[r] # <<>>
                 /\ http[r].body.Value[i].LifecycleEvent = "subscriptionRemoved"
                 /\ http[r].body.Value[i].SubscriptionID
                      = mgr.before[k].SubscriptionID) =>
           store[k].SubscriptionID # mgr.before[k].SubscriptionID

\* a lifecycle request arrives on connection r and its notifications are
\* handed to the manager
LifecycleArrives(r) ==
  /\ runs' # runs
  /\ http'[r] # http[r]
  /\ http'[r].path = LifecyclePath
  /\ http'[r].method = "POST"
  /\ http'[r].validationToken = ""
  /\ http'[r].body.json

\* the mailboxes whose stored active record carries the subscription id
Subscribed(id) ==
  {k \in Keys : store[k].present /\ store[k].Status = "active"
                  /\ store[k].SubscriptionID = id}

\* C17: a reauthorizationRequired event naming the subscription of a stored
\* record makes the manager issue a renewal PATCH for that subscription
\* while it handles the event.
C17_ReauthorizationRenews ==
  [][\A r \in Conns :
       LifecycleArrives(r) =>
         \A i \in 1..Len(http'[r].body.Value) :
           LET n == http'[r].body.Value[i]
           IN (n.LifecycleEvent = "reauthorizationRequired"
                 /\ Subscribed(n.SubscriptionID) # {}) =>
                \E j \in (Len(graph.log) + 1)..Len(graph'.log) :
                  graph'.log[j] = <<"PATCH", n.SubscriptionID>>]_vars

\* C18: a missed event naming the subscription of a stored record makes the
\* manager start OnGapDetected for that record's mailbox while it handles
\* the event.
C18_MissedSignalsGap ==
  [][\A r \in Conns :
       LifecycleArrives(r) =>
         \A i \in 1..Len(http'[r].body.Value) :
           LET n == http'[r].body.Value[i]
           IN n.LifecycleEvent = "missed" =>
                \A k \in Subscribed(n.SubscriptionID) :
                  \E j \in (Len(gaps) + 1)..Len(gaps') : gaps'[j] = k[2]]_vars

\* C19: every mailbox discovered at startup ends up covered by an active
\* subscription once the provider accepts the requests: a create that failed
\* at startup, or a re-create that failed after a 404 renewal, is retried by
\* a later renewal tick.  Without any lifecycle event, once a create has been
\* tried and a tick has then run to its end with every call succeeding, each
\* discovered mailbox has an active record.
C19_DiscoveredMailboxCovered ==
  (mgr.tickDone /\ mgr.listed /\ mgr.clean /\ Creates # {}
     /\ \A r \in Conns : http[r] = NoRequest) =>
    \A u \in mgr.discovered :
      /\ store[Key(TenantID, u)].present
      /\ store[Key(TenantID, u)].Status = "active"

\* C20: once the root context is cancelled and mgr.Stop and syncer.Stop have
\* returned, no background task is running: the renewal loop and the sweep
\* loop have exited, no gap-recovery goroutine is waiting or running, and no
\* dispatch task is in progress.
C20_NoTaskAfterStop ==
  (boot.cancelled /\ boot.pc = "Shutdown") =>
    /\ mgr.loop = "exited"
    /\ sync["sweep"].pc = "idle"
    /\ gaps = <<>>
    /\ sync["gap"].pc = "idle"
    /\ \A r \in Conns : tasks[r].pc = "none" \/ tasks[r].pc = "done"


\* ------------------------------------------------------------ C21..C30
\* answer i recorded a key that answer j, later and for the same event id,
\* still finds in Redis
KeyHeld(i, j) ==
  /\ i < j
  /\ filter.answers[i].eventID = filter.answers[j].eventID
  /\ filter.answers[i].set
  /\ filter.answers[j].at < filter.answers[i].at + DefaultTTL

\* C21: for every fingerprint, an IsNew that Redis answers returns true exactly
\* when no earlier call recorded the fingerprint less than a TTL ago: the first
\* call returns true and records it, the calls within the TTL return false, the
\* first call after the TTL returns true again.
C21_TrueOncePerTTL ==
  \A j \in 1..Len(filter.answers) :
    ~filter.answers[j].err =>
      (filter.answers[j].set <=> ~\E i \in 1..Len(filter.answers) : KeyHeld(i, j))

\* true, then false within the TTL, then true again once the TTL has passed
C21_Witness ==
  \E i, j, k \in 1..Len(filter.answers) :
    /\ i < j /\ j < k
    /\ filter.answers[i].eventID = filter.answers[j].eventID
    /\ filter.answers[j].eventID = filter.answers[k].eventID
    /\ filter.answers[i].set /\ ~filter.answers[j].set /\ ~filter.answers[j].err
    /\ filter.answers[j].at < filter.answers[i].at + DefaultTTL
    /\ filter.answers[k].set
    /\ filter.answers[k].at >= filter.answers[i].at + DefaultTTL

\* calls i and j were in progress at the same time (j entered before i was
\* answered), for the same event id, answered by Redis within one TTL
Concurrent(i, j) ==
  /\ i < j
  /\ filter.answers[j].since < i
  /\ filter.answers[i].eventID = filter.answers[j].eventID
  /\ ~filter.answers[i].err /\ ~filter.answers[j].err
  /\ filter.answers[j].at < filter.answers[i].at + DefaultTTL

\* C22: of concurrent IsNew calls with one fingerprint in one TTL window that
\* Redis answers, never two return true, and one of them returns true unless
\* the fingerprint was already recorded when the first of them was answered.
C22_OneOfConcurrentCallsTrue ==
  \A i, j \in 1..Len(filter.answers) :
    Concurrent(i, j) =>
      /\ ~(filter.answers[i].set /\ filter.answers[j].set)
      /\ (\E k \in 1..Len(filter.answers) : KeyHeld(k, i))
           \/ filter.answers[i].set \/ filter.answers[j].set

\* two calls in progress together, the first answered true, the second false
C22_Witness ==
  \E i, j \in 1..Len(filter.answers) :
    Concurrent(i, j) /\ filter.answers[i].set /\ ~filter.answers[j].set


\* C23: when IsNew fails because Redis is unreachable, the caller (push
\* dispatch, incremental delta sync, backfill) goes on to fetch the same
\* message, nothing having been recorded; the message it fetches it then
\* hands to the publisher, and a publish that succeeds puts it on the queue.
C23_CallersProceedOnDedupError ==
  [][/\ \A p \in Procs :
          /\ (sync[p].pc = "dedup" /\ sync'[p] # sync[p] /\ faults' # faults)
               => /\ sync'[p].pc = "fetch"
                  /\ sync'[p].pending = sync[p].pending
                  /\ seen' = seen
          /\ (sync[p].pc = "fetch" /\ sync'[p] # sync[p] /\ faults' = faults
                /\ Holds(sync[p].user, sync[p].pending[1].id))
               => sync'[p].pc = "publish" /\ sync'[p].pending = sync[p].pending
          /\ (sync[p].pc = "publish" /\ sync'[p] # sync[p] /\ faults' = faults)
               => queue' = Publish(Event(sync[p].user, sync[p].pending[1].id,
                                         TenantID, TenantAlias))
     /\ /\ (backfill.pc = "dedup" /\ backfill' # backfill /\ faults' # faults)
               => /\ backfill'.pc = "fetch"
                  /\ backfill'.pending = backfill.pending
                  /\ seen' = seen
        /\ (backfill.pc = "fetch" /\ backfill' # backfill /\ faults' = faults
              /\ Holds(backfill.Users[1], backfill.pending[1]))
               => backfill'.pc = "publish" /\ backfill'.pending = backfill.pending
        /\ (backfill.pc = "publish" /\ backfill' # backfill /\ faults' = faults)
               => queue' = Publish(Event(backfill.Users[1], backfill.pending[1],
                                         TenantID, TenantAlias))
     /\ \A r \in Conns :
          /\ (tasks[r].pc = "IsNew" /\ tasks'[r] # tasks[r] /\ faults' # faults)
               => /\ tasks'[r].pc = "FetchMessage"
                  /\ tasks'[r].messageID = tasks[r].messageID
                  /\ seen' = seen
          /\ (tasks[r].pc = "FetchMessage" /\ tasks'[r] # tasks[r] /\ faults' = faults
                /\ tasks[r].rec.present
                /\ Holds(tasks[r].userID, tasks[r].messageID))
               => /\ tasks'[r].pc = "Publish"
                  /\ tasks'[r].messageID = tasks[r].messageID
          /\ (tasks[r].pc = "Publish" /\ tasks'[r] # tasks[r] /\ faults' = faults)
               => queue' = Publish(Event(tasks[r].userID, tasks[r].messageID,
                                         tasks[r].notifs[1].TenantID,
                                         tasks[r].rec.TenantAlias))
    ]_vars

\* the three callers each about to publish a message whose dedup check failed
\* (Redis holds no key at all)
C23_Witness ==
  /\ seen = {}
  /\ \E p \in Procs : sync[p].pc = "publish"
  /\ backfill.pc = "publish"
  /\ \E r \in Conns : tasks[r].pc = "Publish"


\* the client states of the stored subscriptions
Secrets == {store[k].ClientState : k \in {x \in DOMAIN store : store[x].present}}

\* C24: the shared secret (client state) of a subscription never appears in a
\* log record, the handling of a notification whose echoed client state does
\* not match included: no field of a record written is a stored client state.
C24_SecretNeverLogged ==
  \A rec \in slog : \A i \in 1..Len(rec) : rec[i] \notin Secrets


\* the SyncMailbox call of s began incremental with token s.token, received
\* 410 and is now in the initial sync that follows
Recovering(s) == s.mode = "initial" /\ s.token # NoLink

\* C25: when an incremental sync with cached token T receives 410, T is
\* discarded from the cache and from the store; the initial sync that follows
\* publishes nothing; when it succeeds the store holds the token T' it
\* acquired, and when it fails neither the cache nor the store holds T.
C25_GoneTokenDiscardedAndReplaced ==
  [][\A p \in Procs :
       LET s == sync[p]
           k == Key(TenantID, s.user)
       IN /\ (s.mode = "incremental" /\ sync'[p].mode = "initial")
               => deltaLinks'[k] # s.token /\ store'[k].DeltaLink # s.token
          /\ (Recovering(s) /\ sync'[p] # s) => queue' = queue
          /\ (Recovering(s) /\ sync'[p].mode = "none")
               => IF sync'[p].result = "ok"
                  THEN s.lastDelta # NoLink /\ store'[k].DeltaLink = s.lastDelta
                  ELSE deltaLinks'[k] # s.token /\ store'[k].DeltaLink # s.token
    ]_vars


\* C26: ensureSubscription chooses one action from the stored record: nothing
\* when the record is active and expiry - now > renewal buffer, a renewal when
\* it is active and expiry - now <= renewal buffer (the boundary included), a
\* create when there is no record or its status is not active.
C26_EnsureChoosesByExpiry ==
  [][(mgr.pc = "Get" /\ mgr'.pc # "Get" /\ faults' = faults)
       => LET existing == StoreGet(Key(TenantID, mgr.userID))
          IN IF existing.present /\ existing.Status = "active"
             THEN IF existing.ExpiresAt - now > renewBuffer
                  THEN mgr'.pc \notin {"PATCH", "POST"} /\ graph' = graph
                  ELSE mgr'.pc = "PATCH" /\ mgr'.rec = existing
             ELSE mgr'.pc = "POST"
    ]_vars


\* the subscriptions a renewal tick is about to PATCH
Scheduled(m) ==
  (IF m.pc = "PATCH" THEN {m.rec.SubscriptionID} ELSE {})
    \cup {m.before[Key(TenantID, m.records[i])].SubscriptionID :
            i \in 1..Len(m.records)}

\* the store with the expiry of the rows of one subscription replaced
WithExpiry(subscriptionID, expiresAt) ==
  [k \in Keys |->
     IF store[k].present /\ store[k].SubscriptionID = subscriptionID
     THEN [store[k] EXCEPT !.ExpiresAt = expiresAt] ELSE store[k]]

\* the renewal loop takes a tick
TickTaken == mgr.loop = "select" /\ mgr.tick /\ ~mgr'.tick

\* C27 as stated: on 200 the record's expiry becomes the new expiry and
\* nothing else of it changes; on an answer other than 200 and 404 the call
\* returns an error with the record unchanged, and the next renewal tick
\* attempts the renewal again.
C27_RenewalUpdatesExpiryOrRetriesNextTick ==
  [][LET id == mgr.rec.SubscriptionID
     IN /\ (mgr.pc = "PATCH" /\ graph'.log # graph.log /\ faults' = faults
              /\ id \in graph.subs)
             => /\ mgr'.pc = "UpdateExpiry"
                /\ mgr'.expiry = now + maxSubscriptionMinutes
                /\ store' = store
        /\ (mgr.pc = "UpdateExpiry" /\ mgr'.pc # "UpdateExpiry")
             => store' = WithExpiry(id, mgr.expiry)
        /\ (mgr.pc = "PATCH" /\ graph'.log # graph.log /\ faults' # faults)
             => /\ mgr'.pc \notin {"UpdateExpiry", "MarkStatus", "POST"}
                /\ store' = store
        /\ TickTaken
             => \A k \in Keys :
                  (store[k].present /\ store[k].Status = "active"
                     /\ store[k].SubscriptionID \in mgr.failed)
                    => store[k].SubscriptionID \in Scheduled(mgr')
    ]_vars

\* C27, amended: on 200 followed by a successful UpdateExpiry the record's
\* expiry becomes the new expiry and nothing else of it changes (a failed
\* UpdateExpiry leaves the record as it was); on an answer other than 200 and
\* 404 the call returns an error with the record unchanged, and the next
\* renewal tick whose ListExpiringSoon query succeeds attempts the renewal
\* again if the record is still active.
C27_RenewalUpdatesExpiryOrRetriesWhenListed ==
  [][LET id == mgr.rec.SubscriptionID
     IN /\ (mgr.pc = "PATCH" /\ graph'.log # graph.log /\ faults' = faults
              /\ id \in graph.subs)
             => /\ mgr'.pc = "UpdateExpiry"
                /\ mgr'.expiry = now + maxSubscriptionMinutes
                /\ store' = store
        /\ (mgr.pc = "UpdateExpiry" /\ mgr'.pc # "UpdateExpiry")
             => store' = IF faults' = faults THEN WithExpiry(id, mgr.expiry)
                         ELSE store
        /\ (mgr.pc = "PATCH" /\ graph'.log # graph.log /\ faults' # faults)
             => /\ mgr'.pc \notin {"UpdateExpiry", "MarkStatus", "POST"}
                /\ store' = store
        /\ (TickTaken /\ mgr'.listed)
             => \A k \in Keys :
                  (store[k].present /\ store[k].Status = "active"
                     /\ store[k].SubscriptionID \in mgr.failed)
                    => store[k].SubscriptionID \in Scheduled(mgr')
    ]_vars

\* a tick is about to renew again a subscription whose last renewal failed
C27_Witness ==
  /\ mgr.pc = "PATCH"
  /\ mgr.caller = "renewExpiring"
  /\ mgr.rec.Status = "active"
  /\ mgr.rec.SubscriptionID \in mgr.failed


\* C28: a failure in ensureSubscription for one user does not abort Start:
\* the failing step leaves the process running, and when Start returns it
\* has called ensureSubscription once for every discovered user, in order, it
\* returns nil (main goes on) and the renewal loop is started.
C28_StartSurvivesUserFailure ==
  [][/\ (mgr.caller = "Start" /\ mgr.pc # "DiscoverUsers" /\ faults' # faults)
          => /\ boot'.pc # "exited"
             /\ mgr'.caller = "Start" \/ mgr'.ensured = graph.users
     /\ (mgr.caller = "Start" /\ mgr.pc # "DiscoverUsers" /\ mgr'.caller # "Start")
          => /\ mgr'.ensured = graph.users
             /\ boot'.pc = "ListByTenant"
             /\ boot'.exit = 0
             /\ mgr'.loop = "select"
    ]_vars

\* Start has returned although the renewal for u1 failed (its row still
\* carries the expiry it had), after creating a subscription for u2
C28_Witness ==
  /\ boot.pc = "ListByTenant"
  /\ faults = 0
  /\ mgr.ensured = Mailboxes
  /\ \E i \in 1..Len(graph.log) : graph.log[i] = <<"PATCH", "sub-1">>
  /\ store[Key(TenantID, "u1")].ExpiresAt = 0
  /\ store[Key(TenantID, "u2")].Status = "active"
  /\ store[Key(TenantID, "u2")].SubscriptionID \notin {"sub-0", ""}


\* the call of s is an initial sync: it began without a cached token, or it
\* fell back to the initial sync after a 410
InInitialSync(s) ==
  s.pc \notin {"idle", "call"} /\ (s.token = NoLink \/ s.mode = "initial")

\* C29: an initial sync follows the nextLink of each page until a page
\* carries a deltaLink, saves that token (cache, then store) and returns; none
\* of its steps checks dedup, fetches or publishes a message; a request that
\* fails, or a page with neither link, ends it with an error and no token
\* saved.
C29_InitialSyncCollectsTokenOnly ==
  [][\A p \in Procs :
       LET s == sync[p]
           k == Key(TenantID, s.user)
           page == DeltaPage(s.user, s.url)
       IN (InInitialSync(s) /\ sync'[p] # s) =>
            /\ sync'[p].pc \notin {"dedup", "fetch", "publish"}
            /\ seen' = seen /\ queue' = queue
            /\ (s.pc = "fetchDeltaPage" /\ faults' = faults) =>
                 /\ store' = store /\ deltaLinks' = deltaLinks
                 /\ IF page.deltaLink # NoLink
                    THEN /\ sync'[p].pc = "saveDeltaLink"
                         /\ sync'[p].lastDelta = page.deltaLink
                    ELSE /\ page.nextLink # NoLink
                         /\ sync'[p].pc = "fetchDeltaPage"
                         /\ sync'[p].url = page.nextLink
            /\ (s.pc = "fetchDeltaPage" /\ faults' # faults) =>
                 /\ sync'[p].mode = "none"
                 /\ sync'[p].result \in {"page error", "no deltaLink"}
                 /\ store' = store /\ deltaLinks' = deltaLinks
            /\ s.pc = "saveDeltaLink" =>
                 /\ deltaLinks' = [deltaLinks EXCEPT ![k] = s.lastDelta]
                 /\ store' = store
                 /\ sync'[p].pc = "persist"
            /\ s.pc = "persist" =>
                 /\ sync'[p].mode = "none"
                 /\ deltaLinks' = deltaLinks
                 /\ faults' = faults =>
                      /\ sync'[p].result = "ok"
                      /\ store[k].present => store'[k].DeltaLink = s.lastDelta
    ]_vars

\* an initial sync over two pages has returned: the token after both messages
\* is in the cache and the store, nothing was recorded or published
C29_Witness ==
  /\ Len(mail) = 2 /\ removed = {} /\ faults = MaxFaults
  /\ \E p \in Procs :
       /\ sync[p].result = "ok" /\ sync[p].pc = "idle"
       /\ deltaLinks[Key(TenantID, sync[p].user)] = <<"delta", 2>>
       /\ StoreGet(Key(TenantID, sync[p].user)).DeltaLink = <<"delta", 2>>
  /\ seen = {} /\ queue = <<>>


\* the call of s is an incremental sync, from the token it found in the cache
InIncrementalSync(s) ==
  s.pc \notin {"idle", "call"} /\ s.token # NoLink /\ s.mode = "incremental"

\* after the entries before rest are dealt with, the call t goes on with the
\* first entry of rest that is no tombstone; when there is none it saves the
\* page's deltaLink, or follows its nextLink, or (neither) returns
GoesOn(rest, page, t) ==
  IF \E n \in 1..Len(rest) : ~rest[n].removed
  THEN /\ t.pc = "dedup"
       /\ t.mode = "incremental"
       /\ \E n \in 1..Len(rest) :
            /\ ~rest[n].removed
            /\ \A i \in 1..(n - 1) : rest[i].removed
            /\ t.pending = SubSeq(rest, n, Len(rest))
  ELSE IF page.deltaLink # NoLink
  THEN t.pc = "saveDeltaLink" /\ t.lastDelta = page.deltaLink
  ELSE IF page.nextLink # NoLink
  THEN t.pc = "fetchDeltaPage" /\ t.url = page.nextLink
  ELSE t.mode = "none" /\ t.result = "ok"

\* C30: an incremental sync hands to the publisher exactly the entries of the
\* pages it traverses that are no tombstones, that dedup under "delta:<id>"
\* reports new or cannot check, and that FetchMessage returns an envelope for;
\* after a message that is skipped, or whose fetch or publish fails, it goes
\* on with the following entries and pages, and at the end of the page that
\* carries the deltaLink it saves that token.
C30_IncrementalSyncPublishesNewLiveMessages ==
  [][\A p \in Procs :
       LET s == sync[p]
           t == sync'[p]
           k == Key(TenantID, s.user)
           id == s.pending[1].id
       IN (InIncrementalSync(s) /\ t # s) =>
            /\ s.pc \in {"dedup", "fetch", "publish"} => ~s.pending[1].removed
            /\ s.pc # "publish" => queue' = queue
            /\ s.pc # "dedup" => seen' = seen
            /\ (s.pc = "fetchDeltaPage" /\ faults' = faults) =>
                 GoesOn(DeltaPage(s.user, s.url).value, DeltaPage(s.user, s.url), t)
            /\ s.pc = "dedup" =>
                 IF faults' = faults /\ ~IsNew(<<"delta:", id>>)
                 THEN GoesOn(Tail(s.pending), s.page, t)
                 ELSE t.pc = "fetch" /\ t.pending = s.pending
            /\ s.pc = "fetch" =>
                 IF faults' = faults /\ Holds(s.user, id)
                 THEN t.pc = "publish" /\ t.pending = s.pending
                 ELSE GoesOn(Tail(s.pending), s.page, t)
            /\ s.pc = "publish" =>
                 /\ queue' = IF faults' = faults
                             THEN Publish(Event(s.user, id, TenantID, TenantAlias))
                             ELSE queue
                 /\ GoesOn(Tail(s.pending), s.page, t)
            /\ s.pc = "saveDeltaLink" =>
                 /\ s.lastDelta = s.page.deltaLink
                 /\ deltaLinks' = [deltaLinks EXCEPT ![k] = s.lastDelta]
                 /\ t.pc = "persist"
            /\ (s.pc = "persist" /\ faults' = faults) =>
                 /\ t.mode = "none" /\ t.result = "ok"
                 /\ store[k].present => store'[k].DeltaLink = s.lastDelta
    ]_vars

\* one incremental sync over two pages: the first message was lost to a
\* failure, the second was published all the same and the token after both
\* was saved
C30_Witness ==
  /\ Len(mail) = 2 /\ removed = {} /\ runs = MaxRuns - 2 /\ faults = MaxFaults - 1
  /\ ~IsNew(<<"delta:", 1>>) /\ ~IsNew(<<"delta:", 2>>)
  /\ queue = <<Event(mail[2], 2, TenantID, TenantAlias)>>
  /\ \E p \in Procs :
       /\ sync[p].result = "ok" /\ sync[p].pc = "idle"
       /\ StoreGet(Key(TenantID, sync[p].user)).DeltaLink = <<"delta", 2>>


\* ------------------------------------------------------------ C31..C40
\* C31: a sweep tick invokes SyncMailbox once for every mailbox of the sweep
\* set, in order, in the one sweep task: a tick is taken only while no sweep
\* invocation is in progress and starts with the first mailbox; whatever the
\* result of an invocation, its return starts the invocation for the next
\* mailbox, and after the last the sweep is idle again.
C31_SweepVisitsEveryMailboxInTurn ==
  [][LET s == sync["sweep"]
         t == sync'["sweep"]
     IN /\ (s.pc = "idle" /\ t.pc # "idle")
             => /\ sweepIdx = 0 /\ sweepIdx' = 1
                /\ t.pc = "call" /\ t.user = syncUsers[1]
        /\ (s.pc = "call" /\ t # s)
             => /\ t.user = s.user /\ t.pc = "fetchDeltaPage"
                /\ sweepIdx' = sweepIdx
        /\ (s.pc \notin {"idle", "call"} /\ t # s)
             => /\ s.user = syncUsers[sweepIdx]
                /\ IF t.mode = "none"
                   THEN IF sweepIdx < Len(syncUsers)
                        THEN /\ t.pc = "call"
                             /\ t.user = syncUsers[sweepIdx + 1]
                             /\ sweepIdx' = sweepIdx + 1
                        ELSE t.pc = "idle" /\ sweepIdx' = 0
                   ELSE t.user = s.user /\ sweepIdx' = sweepIdx
    ]_vars

\* one tick: the sync of u1 failed (it has no token), the sync of u2 ran
\* after it and saved its token, and the sweep is idle again
C31_Witness ==
  /\ runs = MaxRuns - 1 /\ faults = MaxFaults - 1
  /\ sync["sweep"].pc = "idle" /\ sweepIdx = 0
  /\ deltaLinks[Key(TenantID, "u1")] = NoLink
  /\ store[Key(TenantID, "u1")].DeltaLink = NoLink
  /\ deltaLinks[Key(TenantID, "u2")] # NoLink
  /\ store[Key(TenantID, "u2")].DeltaLink # NoLink


\* C32: the delta token of a subscription row changes only in the store
\* write of saveDeltaLink, and then to the deltaLink of the page the sync
\* received with HTTP 200; Upsert (also over an existing row), UpdateExpiry,
\* MarkStatus and TouchNotification leave the token of every row as it was.
C32_TokenChangesOnlyBySaveDeltaLink ==
  [][\A k \in DOMAIN store :
       store'[k].DeltaLink # store[k].DeltaLink =>
         \E p \in Procs :
           /\ sync[p].pc = "persist" /\ sync'[p].pc # "persist"
           /\ k = Key(TenantID, sync[p].user)
           /\ sync[p].page.deltaLink # NoLink
           /\ store'[k].DeltaLink = sync[p].page.deltaLink
    ]_vars

\* the row of u1 has a saved token and has since been re-created under a new
\* subscription id, given another expiry, marked removed and touched
C32_Witness ==
  LET r == store[Key(TenantID, "u1")]
  IN /\ r.present /\ r.DeltaLink # NoLink
     /\ r.SubscriptionID = "sub-2" /\ r.ClientState = "s2"
     /\ r.ExpiresAt = 1 /\ r.Status = "removed" /\ r.LastNotification
     /\ sync["sweep"].pc = "idle"

\* C33: no two rows of the subscriptions table have the same subscription id
\* (and a mailbox has one row); a successful Upsert leaves for its mailbox a
\* row that Get returns with the subscription id, secret, expiry and status
\* that were upserted, whether or not the mailbox had a row before.
UniqueSubscriptionID ==
  \A k \in DOMAIN store : \A j \in DOMAIN store :
    (store[k].present /\ store[j].present
       /\ store[k].SubscriptionID = store[j].SubscriptionID) => k = j

Handled(r, i) == \E c \in calls[r] : c[1] = i /\ c[2] = "Get"

Processable(n) == n.ChangeType = "created" /\ ~parseResource(n.Resource).err

C34_BatchHandledInOrderToTheEnd ==
  [][\A r \in Conns :
       /\ (tasks'[r].pc = "done" /\ NotificationResponse(http'[r]).go)
            => \A i \in 1..Len(http'[r].body.Value) :
                 Processable(http'[r].body.Value[i]) => Handled(r, i)'
       /\ (calls'[r] # calls[r] /\ calls'[r] # {})
            => /\ calls[r] \subseteq calls'[r]
               /\ \A c \in calls'[r] \ calls[r] : \A d \in calls[r] : d[1] <= c[1]
               /\ \A c \in calls'[r] \ calls[r] : c[1] = Index(r)
    ]_vars

\* a finished batch whose first notification was dropped as a duplicate and
\* whose second was fetched
C34_Witness ==
  \E r \in Conns :
    /\ tasks[r].pc = "done"
    /\ Len(http[r].body.Value) = 2
    /\ \E c \in calls[r] : c = <<1, "IsNew", "ok">>
    /\ ~\E c \in calls[r] : c[1] = 1 /\ c[2] = "FetchMessage"
    /\ \E c \in calls[r] : c = <<2, "Publish", "ok">>


\* C35 as stated: an alias without a transport gives an error and no
\* provider call; with a transport, HTTP 200 gives an envelope, HTTP 404 gives
\* neither envelope nor error, and every other status an error and no envelope.
Fetched == probe.op = "FetchMessage" /\ probe.done

C35_FetchMessageMapsStatus ==
  Fetched =>
    LET in == probe.in
        out == probe.out
    IN IF in.tenantAlias \notin graphClients
       THEN out.err /\ ~out.event /\ ~out.called
       ELSE ~in.answer.err =>
              CASE in.answer.status = 200 -> out.event /\ ~out.err
                [] in.answer.status = 404 -> ~out.event /\ ~out.err
                [] OTHER -> ~out.event /\ out.err

\* C35, amended: as above, except that HTTP 200 gives an envelope only when
\* the body decodes; a 200 whose body does not decode gives an error and no
\* envelope, and so does a request the transport fails.
C35_FetchMessageMapsStatusAndBody ==
  Fetched =>
    LET in == probe.in
        out == probe.out
    IN IF in.tenantAlias \notin graphClients
       THEN out.err /\ ~out.event /\ ~out.called
       ELSE /\ out.called
            /\ IF in.answer.err THEN ~out.event /\ out.err
               ELSE CASE in.answer.status = 200 /\ in.answer.body = "message"
                           -> out.event /\ ~out.err
                      [] in.answer.status = 200 /\ in.answer.body # "message"
                           -> ~out.event /\ out.err
                      [] in.answer.status = 404 -> ~out.event /\ ~out.err
                      [] OTHER -> ~out.event /\ out.err

\* a FetchMessage of a registered alias answered 404
C35_Witness ==
  /\ Fetched
  /\ probe.in.tenantAlias \in graphClients
  /\ ~probe.in.answer.err /\ probe.in.answer.status = 404
  /\ ~probe.out.event /\ ~probe.out.err


\* C36: DiscoverUsers never returns a user whose address is an exclude-list
\* entry up to case; with a non-empty include-list it makes no request and
\* returns the include-list without the excluded addresses, in order; without
\* one it requests page after page to the last, returns the users that have a
\* mail and are not excluded, and returns an error and no user as soon as a
\* request is not answered 200.
SameIgnoringCase(a, b) == a = b \/ {a, b} = {"a@x", "A@X"}

Excluded(in, m) ==
  \E j \in 1..Len(in.excludeUsers) : SameIgnoringCase(m, in.excludeUsers[j])

RECURSIVE Listed(_, _)
Listed(in, ms) ==
  IF ms = <<>> THEN <<>>
  ELSE IF ms[1] = "" \/ Excluded(in, ms[1]) THEN Listed(in, Tail(ms))
  ELSE <<ms[1]>> \o Listed(in, Tail(ms))

RECURSIVE AllMails(_)
AllMails(pages) ==
  IF pages = <<>> THEN <<>> ELSE pages[1].value \o AllMails(Tail(pages))

Discovered == probe.op = "DiscoverUsers" /\ probe.done

C36_DiscoverUsersHonoursLists ==
  Discovered =>
    LET in == probe.in
        out == probe.out
        failed == {i \in 1..Len(in.pages) : in.pages[i].status # 200}
    IN /\ \A i \in 1..Len(out.users) : ~Excluded(in, out.users[i])
       /\ IF in.includeUsers # <<>>
          THEN /\ out.calls = 0 /\ ~out.err
               /\ out.users = Listed(in, in.includeUsers)
          ELSE IF failed = {}
          THEN /\ out.calls = Len(in.pages) /\ ~out.err
               /\ out.users = Listed(in, AllMails(in.pages))
          ELSE /\ out.err /\ out.users = <<>>
               /\ \A i \in failed : out.calls <= i

\* auto mode over two pages: a user on each page is returned, the user
\* without mail is skipped and the one excluded in another case is left out
C36_Witness ==
  /\ Discovered
  /\ probe.in.includeUsers = <<>>
  /\ probe.in.excludeUsers = <<"A@X">>
  /\ probe.in.pages = <<[status |-> 200, value |-> <<"", "b@x">>],
                        [status |-> 200, value |-> <<"a@x", "b@x">>]>>
  /\ probe.out.users = <<"b@x", "b@x">> /\ probe.out.calls = 2


\* C37: parseResource accepts a resource exactly when, with one leading slash
\* taken off if there is one, it has four segments of which the first is
\* "users" and the third "messages" in any case, and it then returns the
\* second segment as the user id and the fourth as the message id; every
\* other resource is rejected with an error.
WellFormed(body) ==
  /\ Len(body) = 4
  /\ body[1] \in {"users", "Users"}
  /\ body[3] \in {"messages", "Messages"}

Parsed == probe.op = "parseResource" /\ probe.done

C37_ParseResourceAcceptsFourSegments ==
  Parsed =>
    LET in == probe.in
        out == probe.out
    IN IF WellFormed(in)
       THEN ~out.err /\ out.userID = in[2] /\ out.messageID = in[4]
       ELSE IF Len(in) = 5 /\ in[1] = "" /\ WellFormed(Tail(in))
       THEN ~out.err /\ out.userID = in[3] /\ out.messageID = in[5]
       ELSE out.err

\* "/Users/u1/Messages/u1" is accepted
C37_Witness ==
  /\ Parsed
  /\ probe.in = <<"", "Users", "u1", "Messages", "u1">>
  /\ ~probe.out.err /\ probe.out.userID = "u1" /\ probe.out.messageID = "u1"


\* C38: whenever no SyncMailbox is in progress for a subscribed mailbox, the
\* delta token cached in memory equals the delta token of its subscription
\* row.
Syncing(u) == \E p \in Procs : sync[p].pc \notin {"idle", "call"} /\ sync[p].user = u

C38_CachedTokenEqualsPersistedToken ==
  \A u \in Users :
    LET k == Key(TenantID, u)
    IN (store[k].present /\ ~Syncing(u)) => deltaLinks[k] = store[k].DeltaLink


Counted(b) == b.result.TotalNew + b.ur.Fetched

C40_TotalNewCountsPublishedEnvelopes ==
  [][backfill.pc \notin {"none", "done"} =>
       Counted(backfill') - Counted(backfill) = Len(queue') - Len(queue)
    ]_vars

=============================================================================
